---------------------------- MODULE Spec2Model ----------------------------
(***************************************************************************)
(* A model of libup's filesystem layer (src/src/up_fs.cpp): the descriptor  *)
(* handle, the advisory lock guard, Context's openat, pathname              *)
(* normalisation, proc escape decoding, mountinfo parsing,                  *)
(* origin::location(), Path, File's open options and positional I/O,       *)
(* Directory::list and the directory scan.                                  *)
(*                                                                          *)
(* Each part of the program has its own variables and its own              *)
(* specification (SpecHandle, SpecOpen, ...); the variables of the other    *)
(* parts stay at their idle values.  Texts are sequences of byte codes.     *)
(***************************************************************************)
EXTENDS Integers, Sequences, FiniteSets, TLC

VARIABLES
    \* ---- handle (up_fs.cpp:58-126) and the OS descriptor table
    h_alive,        \* h_alive[h]: the handle object h is constructed
    h_fd,           \* h_fd[h]: handle::_fd, -1 when empty
    h_hist,         \* h_hist[h]: what the last operation left h as
    os_next,        \* the next descriptor the OS hands out
    os_closes,      \* os_closes[d]: number of ::close(d) calls made
    raw_released,   \* descriptors handed back to the caller by release()
    \* ---- file::lock::impl (up_fs.cpp:1301-1337) and the OS flock table
    lk_alive,       \* lk_alive[l]: the lock object l is constructed
    lk_file,        \* lk_file[l]: lock::impl::_file
    lk_excl,        \* lk_excl[l]: lock::impl::_exclusive
    flock_mode,     \* flock_mode[f]: the lock the OS holds for file instance f
    lk_wait,        \* lk_wait[l]: the request of l that sleeps inside ::flock
    lk_op,          \* the last call of perform(): its request and its answer
    \* ---- the process
    proc,           \* "running" or "terminated"
    fatal,          \* the failing teardown call, "none" when there was none
    raised,         \* the exception the last operation raised to its caller
    os_failed,      \* the teardown call the OS failed: "none", "close", "unlock"
    \* ---- context::impl::openat (up_fs.cpp:528-543)
    op_pc,          \* where openat is: "entry", "retry", "done"
    op_avoid,       \* context::impl::_avoid_access_time
    op_flags,       \* the flags argument as the caller gave it
    op_attempts,    \* the ::openat calls made: their flags and the OS's answer
    op_result,      \* what openat gave its caller: a descriptor or an error
    \* ---- pathname_split / pathname_normalize (up_fs.cpp:305-335)
    nz_path,        \* the argument pathname
    nz_p,           \* pathname_split's p, as an index into pathname (from 1)
    nz_result,      \* pathname_normalize's result
    nz_separator,   \* pathname_normalize's separator
    nz_pc,          \* "split" inside pathname_split's loop, "done" after return
    \* ---- unmangle_pathname_from_proc (up_fs.cpp:151-180)
    um_text,        \* the bytes [first, last)
    um_p,           \* p, as an index into the text (from 1)
    um_result,      \* the local result
    um_pc,          \* "scan" inside the loop, "done" after return, "raised"
    um_out,         \* what the caller got: the returned text, or NoText
    \* ---- parse_mountinfo (up_fs.cpp:200-225)
    mi_input,       \* the bytes [first, last) as read from the file
    mi_buf,         \* the same buffer as parse_mountinfo has changed it
    mi_first,       \* first, as an index into the buffer (from 1)
    mi_result,      \* the local result: the mounts so far
    mi_pc,          \* "loop", "done" after return, "raised"
    \* ---- origin::impl::location (up_fs.cpp:634-709) and the filesystem
    fs,             \* the directories above the origin and the mount table
    loc_pc,         \* "entry", "walk" inside the loop, "done", "raised"
    loc_roots,      \* roots, sorted
    loc_previous,   \* previous: (device, inode)
    loc_next,       \* next: (device, inode)
    loc_current,    \* current: the directory it is open on and the open flags
    loc_names,      \* names
    loc_opens,      \* the openat("..") calls made so far
    loc_result,     \* the text returned, or the tag of the error raised
    \* ---- path::impl (up_fs.cpp:746-892)
    p_paths,        \* p_paths[s]: the path::impl object s, NoPath when there is none
    p_op,           \* the last operation on a Path: its arguments and its OS calls
    \* ---- getcwd (up_fs.cpp:42-55) and path::impl::readlink (up_fs.cpp:845-858)
    g_fn,           \* the function that runs: "getcwd" or "readlink", "none" when idle
    g_i,            \* the loop variable i
    g_attempts,     \* the OS calls made: the buffer size and the OS's answer
    g_result,       \* what the caller got: a text length, or the error raised
    g_pc,           \* "loop", "done" after return, "raised"
    \* ---- file::file (up_fs.cpp:1112-1157)
    f_options,      \* the options argument: the set of options that are set
    f_flags,        \* the local flags
    f_mode,         \* the local mode
    f_call,         \* the flags and the mode make_handle hands to openat
    f_pc,           \* "flags", "mode", "open", "done"
    \* ---- file::read_some / file::write_some (up_fs.cpp:1204-1262)
    rw_args,        \* the function called, the descriptor, the buffers and the offset
    rw_attempts,    \* the OS calls made: their arguments and the OS's answer
    rw_result,      \* what the caller got: a byte count, or the error raised
    rw_pc,          \* "loop", "done" after return, "raised"
    \* ---- directory::impl, directory::list (up_fs.cpp:1389-1474)
    d_handle,       \* d_handle[d]: directory::impl::_handle, EmptyFd when given up
    d_holders,      \* d_holders[d]: the owners of the shared impl d, 0 when destroyed
    d_fds,          \* the descriptors that are open in the OS
    d_op,           \* the last list(): how it was called and what it did
    \* ---- scan_directory (up_fs.cpp:245-302)
    sd_collect,     \* TRUE for scan_directory(handle), FALSE for the form with a visitor
    sd_entries,     \* the entries readdir_r delivers, in order
    sd_end,         \* what readdir_r gives after them: "end" or "error"
    sd_read,        \* the entries readdir_r has delivered so far
    sd_visited,     \* the visitor's calls: the entry and what the visitor answered
    sd_vector,      \* the local result of scan_directory(handle)
    sd_result,      \* what the caller got
    sd_handle,      \* the caller's handle: its _fd, EmptyFd once released
    sd_closes,      \* the ::close calls on the descriptor, by closedir and by the handle
    sd_pc,          \* "entry", "loop", "done" after return, "raised"
    \* ---- file::channel::impl (up_fs.cpp:1340-1386), its pipe and the two files
    ch_source,      \* the bytes of the source file
    ch_dest,        \* the bytes of the file the channel was made from
    ch_pipe,        \* the bytes in the pipe, oldest first
    ch_chunk,       \* the size the caller asks every fill for
    ch_offset,      \* the caller's running offset
    ch_pending,     \* what the last fill returned and no drain has moved yet
    ch_totals,      \* the counts all fills and all drains have returned
    ch_last,        \* the last call: the function, its arguments and its answer
    ch_pc,          \* "fill", "drain", "done", "raised"
    \* ---- up::string: basic_string<core, true> (up_string.hpp:125-1028, 1464-1539)
    str_capacity,   \* core::_capacity
    str_size,       \* core::_size
    str_data,       \* core::_data: the char[] of _capacity bytes
    str_ref,        \* the reference sequence the same operations were applied to
    str_ops,        \* the number of operations applied
    str_last,       \* the last operation: its name, its request, what it raised
    \* ---- up_iconv: wrapper and shared_iconv (up_iconv.cpp:27-160)
    ic_mutex,       \* shared_iconv::impl::_mutex: the thread that holds it, or 0
    ic_dirty,       \* wrapper::_dirty
    ic_shift,       \* the conversion state of the iconv_t descriptor
    ic_pc,          \* where each thread is in operator()
    ic_call,        \* each thread's conversion: what it followed, what it did first
    ic_prev,        \* how the last finished conversion ended
    ic_turns,       \* the ::iconv calls of the running process() loop
    ic_count,       \* the conversions begun so far
    ic_result       \* what each thread's last call gave

handleVars == <<h_alive, h_fd, h_hist, os_next, os_closes, raw_released>>
lockVars == <<lk_alive, lk_file, lk_excl, flock_mode, lk_wait, lk_op>>
procVars == <<proc, fatal, raised>>
osVars == <<os_failed>>
openVars == <<op_pc, op_avoid, op_flags, op_attempts, op_result>>
normVars == <<nz_path, nz_p, nz_result, nz_separator, nz_pc>>
unmangleVars == <<um_text, um_p, um_result, um_pc, um_out>>
mountinfoVars == <<mi_input, mi_buf, mi_first, mi_result, mi_pc>>
locationVars == <<fs, loc_pc, loc_roots, loc_previous, loc_next, loc_current, loc_names,
                  loc_opens, loc_result>>

pathVars == <<p_paths, p_op>>
growVars == <<g_fn, g_i, g_attempts, g_result, g_pc>>
fileVars == <<f_options, f_flags, f_mode, f_call, f_pc>>
transferVars == <<rw_args, rw_attempts, rw_result, rw_pc>>
directoryVars == <<d_handle, d_holders, d_fds, d_op>>
scanVars == <<sd_collect, sd_entries, sd_end, sd_read, sd_visited, sd_vector, sd_result,
              sd_handle, sd_closes, sd_pc>>
channelVars == <<ch_source, ch_dest, ch_pipe, ch_chunk, ch_offset, ch_pending, ch_totals, ch_last, ch_pc>>
stringVars == <<str_capacity, str_size, str_data, str_ref, str_ops, str_last>>
iconvVars == <<ic_mutex, ic_dirty, ic_shift, ic_pc, ic_call, ic_prev, ic_turns, ic_count, ic_result>>

\* Handle, lock guard, openat, the text functions and location().
lowerVars == <<handleVars, lockVars, procVars, osVars, openVars, normVars, unmangleVars,
              mountinfoVars, locationVars>>
\* Path, File, Directory and the directory scan.
upperVars == <<pathVars, growVars, fileVars, transferVars, directoryVars, scanVars, channelVars, stringVars, iconvVars>>
vars == <<lowerVars, upperVars>>
\* The parts a step of one part leaves alone.
resourceVars == <<handleVars, lockVars, procVars, osVars>>
exceptHandleLock == <<openVars, normVars, unmangleVars, mountinfoVars, locationVars, upperVars>>
exceptOpen == <<resourceVars, normVars, unmangleVars, mountinfoVars, locationVars, upperVars>>
exceptNorm == <<resourceVars, openVars, unmangleVars, mountinfoVars, locationVars, upperVars>>
exceptUnmangle == <<resourceVars, openVars, normVars, mountinfoVars, locationVars, upperVars>>
exceptMountinfo == <<resourceVars, openVars, normVars, unmangleVars, locationVars, upperVars>>
exceptLocation == <<resourceVars, openVars, normVars, unmangleVars, mountinfoVars, upperVars>>
exceptPath == <<lowerVars, growVars, fileVars, transferVars, directoryVars, scanVars, channelVars, stringVars, iconvVars>>
exceptGrow == <<lowerVars, pathVars, fileVars, transferVars, directoryVars, scanVars, channelVars, stringVars, iconvVars>>
exceptFile == <<lowerVars, pathVars, growVars, transferVars, directoryVars, scanVars, channelVars, stringVars, iconvVars>>
exceptTransfer == <<lowerVars, pathVars, growVars, fileVars, directoryVars, scanVars, channelVars, stringVars, iconvVars>>
exceptDirectory == <<lowerVars, pathVars, growVars, fileVars, transferVars, scanVars, channelVars, stringVars, iconvVars>>
exceptScan == <<lowerVars, pathVars, growVars, fileVars, transferVars, directoryVars, channelVars, stringVars, iconvVars>>
exceptChannel == <<lowerVars, pathVars, growVars, fileVars, transferVars, directoryVars, scanVars, stringVars, iconvVars>>
exceptString == <<lowerVars, pathVars, growVars, fileVars, transferVars, directoryVars, scanVars, channelVars, iconvVars>>
exceptIconv == <<lowerVars, pathVars, growVars, fileVars, transferVars, directoryVars, scanVars, channelVars, stringVars>>

-----------------------------------------------------------------------------
(* Bounds *)

NumHandles == 3
MaxFd == 2
NumLocks == 2
NumFiles == 2
MaxEintr == 1
MaxPathLen == 7
MaxEscLen == 5
MaxLines == 3
MaxDepth == 2
MaxMounts == 2
NumPaths == 2
MaxNameLen == 3
MaxInterrupted == 3
NumDirectories == 2
MaxHolders == 3
MaxEntries == 3
MaxFileLen == 3
MaxChunk == 3
PipeCapacity == 2
MaxOps == 2
MaxStringLen == 4
SizeBits == 16
NumThreads == 2
MaxConversions == 3
MaxTurns == 2
Handles == 1..NumHandles
Descriptors == 0..(MaxFd - 1)
Locks == 1..NumLocks
Files == 1..NumFiles

-----------------------------------------------------------------------------
(* handle *)

\* handle(), handle(int fd): the value _fd starts with.
EmptyFd == -1

\* ::close(temp) as the OS answers it: 0, or -1 with errno set.
CloseResults == {0, -1}

\* UP_TERMINATE: the process ends; nothing runs after it.
UP_TERMINATE(tag) ==
    /\ proc' = "terminated"
    /\ fatal' = tag
    /\ raised' = "none"

\* handle::close(): exchange _fd with -1, ::close the old value, terminate
\* when ::close fails.  rv is the OS's answer.  Gives the new process state.
HandleCloseProc(fd, rv) ==
    IF fd # EmptyFd /\ rv # 0
    THEN UP_TERMINATE("bad-close")
    ELSE UNCHANGED procVars

\* handle::close() on the descriptor table: one more ::close of fd, which
\* the OS answers with rv.
HandleCloseOs(fd, rv) ==
    IF fd # EmptyFd
    THEN /\ os_closes' = [os_closes EXCEPT ![fd] = @ + 1]
         /\ os_failed' = IF rv # 0 THEN "close" ELSE os_failed
    ELSE UNCHANGED <<os_closes, os_failed>>

\* handle(self&& rhs): what rhs._fd is after the move constructor.
MovedFromFdLeak(rhsFd) == rhsFd
MovedFromFd(rhsFd) == EmptyFd

\* explicit handle(int fd): the descriptor is one the OS just handed out.
HandleConstruct(h) ==
    /\ proc = "running"
    /\ ~h_alive[h]
    /\ os_next < MaxFd
    /\ h_alive' = [h_alive EXCEPT ![h] = TRUE]
    /\ h_fd' = [h_fd EXCEPT ![h] = os_next]
    /\ h_hist' = [h_hist EXCEPT ![h] = "constructed"]
    /\ os_next' = os_next + 1
    /\ UNCHANGED <<os_closes, raw_released, lockVars, procVars, osVars, exceptHandleLock>>

\* explicit handle(): empty.
HandleConstructEmpty(h) ==
    /\ proc = "running"
    /\ ~h_alive[h]
    /\ h_alive' = [h_alive EXCEPT ![h] = TRUE]
    /\ h_fd' = [h_fd EXCEPT ![h] = EmptyFd]
    /\ h_hist' = [h_hist EXCEPT ![h] = "constructed"]
    /\ UNCHANGED <<os_next, os_closes, raw_released, lockVars, procVars, osVars, exceptHandleLock>>

\* handle(self&& rhs)
HandleMoveConstruct(h, rhs) ==
    /\ proc = "running"
    /\ ~h_alive[h]
    /\ h_alive[rhs]
    /\ h_alive' = [h_alive EXCEPT ![h] = TRUE]
    /\ h_fd' = [h_fd EXCEPT ![h] = h_fd[rhs], ![rhs] = MovedFromFd(h_fd[rhs])]
    /\ h_hist' = [h_hist EXCEPT ![h] = "constructed", ![rhs] = "moved_from"]
    /\ UNCHANGED <<os_next, os_closes, raw_released, lockVars, procVars, osVars, exceptHandleLock>>

\* void swap(self& rhs)
HandleSwapFds(h, rhs) ==
    [h_fd EXCEPT ![h] = h_fd[rhs], ![rhs] = h_fd[h]]

HandleSwap(h, rhs) ==
    /\ proc = "running"
    /\ h_alive[h] /\ h_alive[rhs]
    /\ h_fd' = HandleSwapFds(h, rhs)
    /\ h_hist' = [h_hist EXCEPT ![h] = "swapped", ![rhs] = "swapped"]
    /\ UNCHANGED <<h_alive, os_next, os_closes, raw_released, lockVars, procVars, osVars, exceptHandleLock>>

\* operator=(self&& rhs): swap(rhs); rhs.close().  rhs may be *this.
HandleMoveAssign(h, rhs, rv) ==
    /\ proc = "running"
    /\ h_alive[h] /\ h_alive[rhs]
    /\ LET swapped == HandleSwapFds(h, rhs)
           old == swapped[rhs]
       IN  /\ h_fd' = [swapped EXCEPT ![rhs] = EmptyFd]
           /\ HandleCloseOs(old, rv)
           /\ HandleCloseProc(old, rv)
    /\ h_hist' = [h_hist EXCEPT ![h] = "assigned", ![rhs] = "moved_from"]
    /\ UNCHANGED <<h_alive, os_next, raw_released, lockVars, exceptHandleLock>>

\* release(): std::exchange(_fd, -1); the caller owns the descriptor again.
HandleRelease(h) ==
    /\ proc = "running"
    /\ h_alive[h]
    /\ h_fd' = [h_fd EXCEPT ![h] = EmptyFd]
    /\ raw_released' =
          IF h_fd[h] # EmptyFd THEN raw_released \cup {h_fd[h]} ELSE raw_released
    /\ h_hist' = [h_hist EXCEPT ![h] = "released"]
    /\ UNCHANGED <<h_alive, os_next, os_closes, lockVars, procVars, osVars, exceptHandleLock>>

\* ~handle(): close().
HandleDestroy(h, rv) ==
    /\ proc = "running"
    /\ h_alive[h]
    /\ h_alive' = [h_alive EXCEPT ![h] = FALSE]
    /\ h_fd' = [h_fd EXCEPT ![h] = EmptyFd]
    /\ h_hist' = [h_hist EXCEPT ![h] = "destroyed"]
    /\ HandleCloseOs(h_fd[h], rv)
    /\ HandleCloseProc(h_fd[h], rv)
    /\ UNCHANGED <<os_next, raw_released, lockVars, exceptHandleLock>>

HandleInit ==
    /\ h_alive = [h \in Handles |-> FALSE]
    /\ h_fd = [h \in Handles |-> EmptyFd]
    /\ h_hist = [h \in Handles |-> "destroyed"]
    /\ os_next = 0
    /\ os_closes = [d \in 0..MaxFd |-> 0]
    /\ raw_released = {}

ProcInit ==
    /\ proc = "running"
    /\ fatal = "none"
    /\ raised = "none"
    /\ os_failed = "none"

-----------------------------------------------------------------------------
(* file::lock *)

\* The answers of ::flock: "ok", or -1 with errno EINTR, EWOULDBLOCK or
\* another error (ENOLCK, EBADF).
FlockFinal == {"ok", "EWOULDBLOCK", "ENOLCK"}

\* The do/while of perform(): the call is repeated while it answers EINTR;
\* the answer of answers that ends the loop.
RECURSIVE PerformLoop(_)
PerformLoop(answers) ==
    IF Head(answers) = "EINTR" /\ Len(answers) > 1
    THEN PerformLoop(Tail(answers))
    ELSE Head(answers)

\* perform() after the loop: what it raises ("none" when it returns).
PerformRaisesGeneric(answer) == IF answer # "ok" THEN "runtime" ELSE "none"
PerformRaises(answer) ==
    IF answer = "EWOULDBLOCK" THEN "locked_file"
    ELSE IF answer # "ok" THEN "runtime"
    ELSE "none"

\* n answers EINTR, then the final answer.
EintrThen(n, final) == [i \in 1..(n + 1) |-> IF i <= n THEN "EINTR" ELSE final]

\* Whether the OS lets file instance f take the lock now (flock(2)).
FlockConflict(f, exclusive) ==
    \E g \in Files \ {f} :
        flock_mode[g] = "EX" \/ (exclusive /\ flock_mode[g] # "UN")

\* The final answers ::flock can give to a lock request.
FlockAnswers(f, exclusive, blocking) ==
    IF FlockConflict(f, exclusive)
    THEN (IF blocking THEN {} ELSE {"EWOULDBLOCK"}) \cup {"ENOLCK"}
    ELSE {"ok", "ENOLCK"}

\* No request of the lock sleeps; no call of perform() was made yet.
NoWait == [file |-> 0, exclusive |-> FALSE]
NoLockOp == [kind |-> "none", lock |-> 0, file |-> 0, blocking |-> FALSE,
             conflict |-> FALSE, answer |-> "none"]

\* make_shared<const lock::impl>: the object exists when its constructor
\* returned; when the constructor raised there is no object and no
\* destructor will run.
ConstructedAlways(exc) == TRUE
Constructed(exc) == exc = "none"

\* lock::impl(file, exclusive, blocking), through file::acquire_lock: the
\* ::flock calls that answer without sleeping.
LockAcquire(l, f, exclusive, blocking, n, final) ==
    /\ proc = "running"
    /\ ~lk_alive[l]
    /\ lk_wait[l] = NoWait
    /\ final \in FlockAnswers(f, exclusive, blocking)
    /\ LET answer == PerformLoop(EintrThen(n, final))
           exc == PerformRaises(answer)
       IN  /\ raised' = exc
           /\ lk_op' = [kind |-> "acquire", lock |-> l, file |-> f,
                        blocking |-> blocking,
                        conflict |-> FlockConflict(f, exclusive),
                        answer |-> answer]
           /\ lk_alive' = [lk_alive EXCEPT ![l] = Constructed(exc)]
           /\ lk_file' = [lk_file EXCEPT ![l] = IF exc = "none" THEN f ELSE @]
           /\ lk_excl' = [lk_excl EXCEPT ![l] = IF exc = "none" THEN exclusive ELSE @]
           /\ flock_mode' =
                 IF answer = "ok"
                 THEN [flock_mode EXCEPT ![f] = IF exclusive THEN "EX" ELSE "SH"]
                 ELSE flock_mode
    /\ UNCHANGED <<handleVars, lk_wait, proc, fatal, osVars, exceptHandleLock>>

\* lock::impl(file, exclusive, true) when another file instance holds a
\* conflicting lock: ::flock without LOCK_NB puts the calling thread to
\* sleep inside perform().
LockBlock(l, f, exclusive) ==
    /\ proc = "running"
    /\ ~lk_alive[l]
    /\ lk_wait[l] = NoWait
    /\ FlockConflict(f, exclusive)
    /\ lk_wait' = [lk_wait EXCEPT ![l] = [file |-> f, exclusive |-> exclusive]]
    /\ UNCHANGED <<handleVars, lk_alive, lk_file, lk_excl, flock_mode, lk_op,
                   procVars, osVars, exceptHandleLock>>

\* The sleeping ::flock of l can be granted: no other file instance holds
\* a conflicting lock any more.
Grantable(l) ==
    /\ lk_wait[l] # NoWait
    /\ ~FlockConflict(lk_wait[l].file, lk_wait[l].exclusive)

\* The sleeping ::flock returns 0 (a signal in between makes it answer
\* EINTR and perform() calls it again); the constructor returns.
LockWake(l) ==
    /\ proc = "running"
    /\ Grantable(l)
    /\ raised' = PerformRaises("ok")
    /\ lk_op' = [kind |-> "acquire", lock |-> l, file |-> lk_wait[l].file,
                 blocking |-> TRUE, conflict |-> TRUE, answer |-> "ok"]
    /\ lk_alive' = [lk_alive EXCEPT ![l] = Constructed(PerformRaises("ok"))]
    /\ lk_file' = [lk_file EXCEPT ![l] = lk_wait[l].file]
    /\ lk_excl' = [lk_excl EXCEPT ![l] = lk_wait[l].exclusive]
    /\ flock_mode' = [flock_mode EXCEPT ![lk_wait[l].file] =
                         IF lk_wait[l].exclusive THEN "EX" ELSE "SH"]
    /\ lk_wait' = [lk_wait EXCEPT ![l] = NoWait]
    /\ UNCHANGED <<handleVars, proc, fatal, osVars, exceptHandleLock>>

\* An exception that leaves a noexcept function ends the process.
NoexceptEscapeLeak(exc, tag) ==
    /\ raised' = exc
    /\ UNCHANGED <<proc, fatal>>
NoexceptEscape(exc, tag) ==
    IF exc # "none"
    THEN UP_TERMINATE(tag)
    ELSE raised' = "none" /\ UNCHANGED <<proc, fatal>>

\* ~impl() noexcept: perform(LOCK_UN).
LockDestroy(l, n, final) ==
    /\ proc = "running"
    /\ lk_alive[l]
    /\ LET answer == PerformLoop(EintrThen(n, final))
       IN  /\ NoexceptEscape(PerformRaises(answer), "bad-unlock")
           /\ lk_op' = [kind |-> "destroy", lock |-> l, file |-> lk_file[l],
                        blocking |-> FALSE, conflict |-> FALSE, answer |-> answer]
           /\ flock_mode' =
                 IF answer = "ok"
                 THEN [flock_mode EXCEPT ![lk_file[l]] = "UN"]
                 ELSE flock_mode
    /\ os_failed' = IF final # "ok" THEN "unlock" ELSE os_failed
    /\ lk_alive' = [lk_alive EXCEPT ![l] = FALSE]
    /\ lk_file' = [lk_file EXCEPT ![l] = 1]
    /\ lk_excl' = [lk_excl EXCEPT ![l] = FALSE]
    /\ UNCHANGED <<handleVars, lk_wait, exceptHandleLock>>

LockInit ==
    /\ lk_alive = [l \in Locks |-> FALSE]
    /\ lk_file = [l \in Locks |-> 1]
    /\ lk_excl = [l \in Locks |-> FALSE]
    /\ flock_mode = [f \in Files |-> "UN"]
    /\ lk_wait = [l \in Locks |-> NoWait]
    /\ lk_op = NoLockOp

-----------------------------------------------------------------------------
(* context::impl::openat *)

\* context::context: the flags every open gets.
AdditionalOpenFlags == {"O_CLOEXEC", "O_NOCTTY", "O_NONBLOCK"}

\* The flags a caller may pass.
CallerFlags == SUBSET {"O_NOATIME", "O_DIRECTORY", "O_PATH", "O_CREAT"}

\* The answers of ::openat: a descriptor, or -1 with errno set.
OpenatAnswers ==
    [rv : {0, 3}, errno : {"none"}] \cup [rv : {-1}, errno : {"EPERM", "ENOENT", "EACCES"}]

\* check(rv, ...): rv when rv >= 0, else an exception carrying errno.
Check(answer) ==
    IF answer.rv >= 0
    THEN [kind |-> "returned", rv |-> answer.rv, errno |-> "none"]
    ELSE [kind |-> "raised", rv |-> -1, errno |-> answer.errno]

\* flags |= _additional_open_flags
MergedFlags == op_flags \cup AdditionalOpenFlags

\* if (_avoid_access_time && (flags & O_NOATIME) == 0)
OpenatSuppresses == op_avoid /\ "O_NOATIME" \notin MergedFlags

\* else if (errno != EPERM) check(...)  // else: continue
OpenatContinuesAny(errno) == TRUE
OpenatContinues(errno) == errno = "EPERM"

\* The first ::openat, with O_NOATIME added.
OpenatFirst(answer) ==
    /\ op_pc = "entry"
    /\ OpenatSuppresses
    /\ op_attempts' = Append(op_attempts,
          [flags |-> MergedFlags \cup {"O_NOATIME"}, answer |-> answer])
    /\ IF answer.rv >= 0
       THEN op_pc' = "done" /\ op_result' = Check(answer)
       ELSE IF ~OpenatContinues(answer.errno)
       THEN op_pc' = "done" /\ op_result' = Check(answer)
       ELSE op_pc' = "retry" /\ UNCHANGED op_result
    /\ UNCHANGED <<op_avoid, op_flags, exceptOpen>>

\* return check(::openat(dir_fd, pathname, flags, mode), ...)
OpenatPlain(answer) ==
    /\ \/ op_pc = "entry" /\ ~OpenatSuppresses
       \/ op_pc = "retry"
    /\ op_attempts' = Append(op_attempts, [flags |-> MergedFlags, answer |-> answer])
    /\ op_pc' = "done"
    /\ op_result' = Check(answer)
    /\ UNCHANGED <<op_avoid, op_flags, exceptOpen>>

NoResult == [kind |-> "none", rv |-> -1, errno |-> "none"]

\* A call of openat on a context with either setting of _avoid_access_time.
OpenInit ==
    /\ op_pc = "entry"
    /\ op_avoid \in BOOLEAN
    /\ op_flags \in CallerFlags
    /\ op_attempts = <<>>
    /\ op_result = NoResult

OpenIdle ==
    /\ op_pc = "idle"
    /\ op_avoid = FALSE
    /\ op_flags = {}
    /\ op_attempts = <<>>
    /\ op_result = NoResult

-----------------------------------------------------------------------------
(* Texts: sequences of bytes *)

SLASH == 47
DOT == 46
BACKSLASH == 92
SPACE == 32
NEWLINE == 10
NUL == 0
COLON == 58
DIGIT0 == 48
DIGIT1 == DIGIT0 + 1
DIGIT3 == 51
DIGIT4 == DIGIT0 + 4
DIGIT7 == 55
DIGIT8 == DIGIT0 + 8
DIGIT9 == DIGIT0 + 9
LETTERa == 97
LETTERb == LETTERa + 1
LETTERc == LETTERa + 2

\* All texts over alphabet of length at most n.
Texts(alphabet, n) == UNION {[1..k -> alphabet] : k \in 0..n}

\* std::find(first, last, ch) on text, with iterators as indices: the first
\* index in [first, last) that holds ch, else last.
Find(text, first, last, ch) ==
    LET hits == {i \in first..(last - 1) : text[i] = ch}
    IN  IF hits = {} THEN last ELSE CHOOSE i \in hits : \A k \in hits : i <= k

\* std::string(first, last)
Range(text, first, last) == SubSeq(text, first, last - 1)

-----------------------------------------------------------------------------
(* pathname_split, pathname_normalize *)

\* The lambda invoke of pathname_split: whether [first, last) is handed to
\* the callable.
InvokeKeepsNoDotted(text, first, last) ==
    first # last /\ text[first] # DOT
InvokeKeeps(text, first, last) ==
    first # last /\ (first + 1 # last \/ text[first] # DOT)

\* The lambda of pathname_normalize applied to name: the new result.
NormalizeAppend(result, separator, name) ==
    result \o (IF separator THEN <<SLASH>> ELSE <<>>) \o name

\* invoke(first, last) with pathname_normalize's lambda as the callable.
NormalizeInvoke(first, last) ==
    IF InvokeKeeps(nz_path, first, last)
    THEN /\ nz_result' = NormalizeAppend(nz_result, nz_separator, Range(nz_path, first, last))
         /\ nz_separator' = TRUE
    ELSE UNCHANGED <<nz_result, nz_separator>>

\* bool absolute = pathname.compare(0, 1, "/") == 0
Absolute(pathname) == Len(pathname) >= 1 /\ pathname[1] = SLASH

\* One turn of while ((r = std::find(p, q, '/')) != q) { invoke(p, r); p = r + 1; }
NormalizeSplitStep ==
    /\ nz_pc = "split"
    /\ LET q == Len(nz_path) + 1
           r == Find(nz_path, nz_p, q, SLASH)
       IN  /\ r # q
           /\ NormalizeInvoke(nz_p, r)
           /\ nz_p' = r + 1
    /\ UNCHANGED <<nz_path, nz_pc, exceptNorm>>

\* The loop ends: invoke(p, q), then
\* result.append(result.empty() ? 1 : 0, absolute ? '/' : '.'); return result.
NormalizeFinish ==
    /\ nz_pc = "split"
    /\ LET q == Len(nz_path) + 1
           kept == InvokeKeeps(nz_path, nz_p, q)
           res == IF kept
                  THEN NormalizeAppend(nz_result, nz_separator, Range(nz_path, nz_p, q))
                  ELSE nz_result
       IN  /\ Find(nz_path, nz_p, q, SLASH) = q
           /\ nz_result' =
                 IF res = <<>>
                 THEN (IF Absolute(nz_path) THEN <<SLASH>> ELSE <<DOT>>)
                 ELSE res
           /\ nz_separator' = (nz_separator \/ kept)
           /\ nz_p' = q
    /\ nz_pc' = "done"
    /\ UNCHANGED <<nz_path, exceptNorm>>

\* The pathnames the specification starts from.
NormAlphabet == {SLASH, DOT, LETTERa}
NormExamples == {
    <<LETTERa, SLASH, SLASH, LETTERb, SLASH, DOT, SLASH, LETTERc>>,
    <<SLASH, LETTERa, SLASH, DOT, SLASH, LETTERb>>,
    <<LETTERa, SLASH, DOT, DOT, SLASH, DOT, DOT, DOT, SLASH, DOT, LETTERb>> }

\* pathname_normalize(pathname) up to the call of pathname_split.
NormInit ==
    /\ nz_path \in Texts(NormAlphabet, MaxPathLen) \cup NormExamples
    /\ nz_p = 1
    /\ nz_result = <<>>
    /\ nz_separator = Absolute(nz_path)
    /\ nz_pc = "split"

NormIdle ==
    /\ nz_path = <<>>
    /\ nz_p = 1
    /\ nz_result = <<>>
    /\ nz_separator = FALSE
    /\ nz_pc = "idle"

-----------------------------------------------------------------------------
(* unmangle_pathname_from_proc *)

\* What the caller has when no text was returned.
NoText == <<-1>>

\* if (*p < '0' || *p > '3') raise, for the first digit; '7' for the others.
OctalDigitLoose(ch, max) == ch >= DIGIT0 /\ ch <= DIGIT9
OctalDigit(ch, max) == ch >= DIGIT0 /\ ch <= max

\* else if (last - p < 4) raise: fewer than three bytes follow the backslash.
EscapeTruncated(text, p) == (Len(text) + 1) - p < 4

\* value = (value << 3) + (*p - '0'), three times, as unsigned.
EscapeValueDecimal(d1, d2, d3) ==
    ((((d1 - DIGIT0) * 10) + (d2 - DIGIT0)) * 10) + (d3 - DIGIT0)
EscapeValue(d1, d2, d3) ==
    ((((d1 - DIGIT0) * 8) + (d2 - DIGIT0)) * 8) + (d3 - DIGIT0)

\* static_cast<unsigned char>(value)
ToByte(value) == value % 256

\* One turn of for (auto p = first; p != last; ++p) { ... }
UnmangleStep ==
    /\ um_pc = "scan"
    /\ um_p # Len(um_text) + 1
    /\ IF um_text[um_p] # BACKSLASH
       THEN /\ um_result' = Append(um_result, um_text[um_p])
            /\ um_p' = um_p + 1
            /\ UNCHANGED <<um_pc, um_out>>
       ELSE IF EscapeTruncated(um_text, um_p)
       THEN /\ um_pc' = "raised"
            /\ UNCHANGED <<um_result, um_p, um_out>>
       ELSE IF \/ ~OctalDigit(um_text[um_p + 1], DIGIT3)
               \/ ~OctalDigit(um_text[um_p + 2], DIGIT7)
               \/ ~OctalDigit(um_text[um_p + 3], DIGIT7)
       THEN /\ um_pc' = "raised"
            /\ UNCHANGED <<um_result, um_p, um_out>>
       ELSE /\ um_result' = Append(um_result,
                 ToByte(EscapeValue(um_text[um_p + 1], um_text[um_p + 2], um_text[um_p + 3])))
            /\ um_p' = um_p + 4
            /\ UNCHANGED <<um_pc, um_out>>
    /\ UNCHANGED <<um_text, exceptUnmangle>>

\* p == last: return result.
UnmangleReturn ==
    /\ um_pc = "scan"
    /\ um_p = Len(um_text) + 1
    /\ um_pc' = "done"
    /\ um_out' = um_result
    /\ UNCHANGED <<um_text, um_p, um_result, exceptUnmangle>>

\* The texts the specification starts from.
EscAlphabet == {BACKSLASH, SLASH, DIGIT0, DIGIT3, DIGIT4, DIGIT7, DIGIT8}
\* "/m\040d", "\040\137\377", "a\04", "\089", "\400", "\\040"
EscExamples == {
    <<SLASH, LETTERa, BACKSLASH, DIGIT0, DIGIT4, DIGIT0, LETTERb>>,
    <<BACKSLASH, DIGIT0, DIGIT4, DIGIT0, BACKSLASH, DIGIT1, DIGIT3, DIGIT7,
      BACKSLASH, DIGIT3, DIGIT7, DIGIT7>>,
    <<LETTERa, BACKSLASH, DIGIT0, DIGIT4>>,
    <<BACKSLASH, DIGIT0, DIGIT8, DIGIT9>>,
    <<BACKSLASH, DIGIT4, DIGIT0, DIGIT0>>,
    <<BACKSLASH, BACKSLASH, DIGIT0, DIGIT4, DIGIT0>> }

UnmangleInit ==
    /\ um_text \in Texts(EscAlphabet, MaxEscLen) \cup EscExamples
    /\ um_p = 1
    /\ um_result = <<>>
    /\ um_pc = "scan"
    /\ um_out = NoText

UnmangleIdle ==
    /\ um_text = <<>>
    /\ um_p = 1
    /\ um_result = <<>>
    /\ um_pc = "idle"
    /\ um_out = NoText

-----------------------------------------------------------------------------
(* parse_mountinfo *)

\* unmangle_pathname_from_proc(first, last) as a function of the text
\* [first, last): the loop from position p with the result so far.
RECURSIVE UnmangleFrom(_, _, _)
UnmangleFrom(text, p, result) ==
    IF p = Len(text) + 1 THEN [raised |-> FALSE, text |-> result]
    ELSE IF text[p] # BACKSLASH THEN UnmangleFrom(text, p + 1, Append(result, text[p]))
    ELSE IF EscapeTruncated(text, p) THEN [raised |-> TRUE, text |-> NoText]
    ELSE IF \/ ~OctalDigit(text[p + 1], DIGIT3)
            \/ ~OctalDigit(text[p + 2], DIGIT7)
            \/ ~OctalDigit(text[p + 3], DIGIT7)
    THEN [raised |-> TRUE, text |-> NoText]
    ELSE UnmangleFrom(text, p + 4,
             Append(result, ToByte(EscapeValue(text[p + 1], text[p + 2], text[p + 3]))))

Unmangle(text) == UnmangleFrom(text, 1, <<>>)

\* sscanf: white space is what isspace() accepts.
IsSpace(ch) == ch \in {SPACE, NEWLINE, 9, 11, 12, 13}
IsDigit(ch) == ch >= DIGIT0 /\ ch <= DIGIT9
IsSign(ch) == ch \in {43, 45}

\* sscanf reads the C string that starts at i: the first index at or after
\* i that is not white space (the NUL that ends the string is not).
RECURSIVE SkipSpace(_, _)
SkipSpace(buf, i) == IF IsSpace(buf[i]) THEN SkipSpace(buf, i + 1) ELSE i

\* The first index at or after i that holds no digit.
RECURSIVE SkipDigits(_, _)
SkipDigits(buf, i) == IF IsDigit(buf[i]) THEN SkipDigits(buf, i + 1) ELSE i

\* The decimal value of the digits buf[i..j-1].
RECURSIVE Decimal(_, _, _)
Decimal(buf, i, j) ==
    IF i = j THEN 0 ELSE Decimal(buf, i, j - 1) * 10 + (buf[j - 1] - DIGIT0)

\* One %d or %u conversion at i: white space, an optional sign, digits.
ScanNumber(buf, i) ==
    LET a == SkipSpace(buf, i)
        b == IF IsSign(buf[a]) THEN a + 1 ELSE a
        c == SkipDigits(buf, b)
    IN  [ok |-> c > b, eof |-> buf[a] = NUL, next |-> c,
         value |-> IF buf[a] = 45 THEN 0 - Decimal(buf, b, c) ELSE Decimal(buf, b, c)]

\* sscanf(first, "%*d %*d %u:%u%n", &major, &minor, &pos): the return value
\* and, when both numbers were stored, major, minor and pos.
Sscanf(buf, first) ==
    LET id == ScanNumber(buf, first)
        parent == ScanNumber(buf, SkipSpace(buf, id.next))
        major == ScanNumber(buf, SkipSpace(buf, parent.next))
        minor == ScanNumber(buf, major.next + 1)
        failed(rv) == [rv |-> rv, major |-> 0, minor |-> 0, pos |-> 0]
    IN  IF ~id.ok THEN failed(IF id.eof THEN -1 ELSE 0)
        ELSE IF ~parent.ok THEN failed(IF parent.eof THEN -1 ELSE 0)
        ELSE IF ~major.ok THEN failed(IF major.eof THEN -1 ELSE 0)
        ELSE IF buf[major.next] # COLON THEN failed(1)
        ELSE IF ~minor.ok THEN failed(1)
        ELSE [rv |-> 2, major |-> major.value, minor |-> minor.value,
              pos |-> minor.next - first]

\* makedev(major, minor), for major < 4096 and minor < 256.
MakeDev(major, minor) == major * 256 + minor

\* mount(device, path)
Mount(device, path) == [device |-> device, path |-> path]

\* Where the search for the ' ' that ends a field stops:
\* std::find(first + pos + 1, last, ' ') and std::find(r, last, ' ').
FieldSearchEnd(p, last) == last

\* One turn of while ((p = std::find(first, last, '\n')) != last) { ... }
MountinfoLine ==
    /\ mi_pc = "loop"
    /\ LET last == Len(mi_buf) + 1
           p == Find(mi_buf, mi_first, last, NEWLINE)
           buf == [mi_buf EXCEPT ![p] = NUL]
           scan == Sscanf(buf, mi_first)
           stop == FieldSearchEnd(p, last)
           r0 == Find(buf, mi_first + scan.pos + 1, stop, SPACE)
           r == r0 + 1
           z == Find(buf, r, stop, SPACE)
           path == Unmangle(Range(buf, r, z))
       IN  /\ p # last
           /\ mi_buf' = buf
           /\ IF scan.rv # 2 /\ scan.rv # 3
              THEN mi_pc' = "raised" /\ UNCHANGED <<mi_first, mi_result>>
              ELSE IF r0 = stop
              THEN mi_pc' = "raised" /\ UNCHANGED <<mi_first, mi_result>>
              ELSE IF z = stop
              THEN mi_pc' = "raised" /\ UNCHANGED <<mi_first, mi_result>>
              ELSE IF path.raised
              THEN mi_pc' = "raised" /\ UNCHANGED <<mi_first, mi_result>>
              ELSE /\ mi_result' = Append(mi_result,
                         Mount(MakeDev(scan.major, scan.minor), path.text))
                   /\ mi_first' = p + 1
                   /\ UNCHANGED mi_pc
    /\ UNCHANGED <<mi_input, exceptMountinfo>>

\* No '\n' is left: return result.
MountinfoReturn ==
    /\ mi_pc = "loop"
    /\ Find(mi_buf, mi_first, Len(mi_buf) + 1, NEWLINE) = Len(mi_buf) + 1
    /\ mi_pc' = "done"
    /\ UNCHANGED <<mi_input, mi_buf, mi_first, mi_result, exceptMountinfo>>

\* The lines the tables are made of, without their '\n'.
\* "1 1 0:3 / /a x": all fields, and text after the mount point.
LineFull == <<DIGIT1, SPACE, DIGIT1, SPACE, DIGIT0, COLON, DIGIT3, SPACE, SLASH, SPACE,
              SLASH, LETTERa, SPACE, LETTERb>>
\* "3 1 1:0 /a /\040 x": the mount point holds an escape.
LineEscaped == <<DIGIT3, SPACE, DIGIT1, SPACE, DIGIT1, COLON, DIGIT0, SPACE, SLASH, LETTERa,
                 SPACE, SLASH, BACKSLASH, DIGIT0, DIGIT4, DIGIT0, SPACE, LETTERb>>
\* "1 1 0:3": neither root nor mount point.
LineShort == <<DIGIT1, SPACE, DIGIT1, SPACE, DIGIT0, COLON, DIGIT3>>
\* "1 1 0:3 /": a root and no mount point.
LineNoMountPoint == <<DIGIT1, SPACE, DIGIT1, SPACE, DIGIT0, COLON, DIGIT3, SPACE, SLASH>>
\* "1 1 / /a x": no major:minor.
LineNoDevice == <<DIGIT1, SPACE, DIGIT1, SPACE, SLASH, SPACE, SLASH, LETTERa, SPACE, LETTERb>>
\* "1 1 0:3 / /\09 x": all fields, with a bad escape in the mount point.
LineBadEscape == <<DIGIT1, SPACE, DIGIT1, SPACE, DIGIT0, COLON, DIGIT3, SPACE, SLASH, SPACE,
                   SLASH, BACKSLASH, DIGIT0, DIGIT9, SPACE, LETTERb>>

MountinfoLines == {LineFull, LineEscaped, LineShort, LineNoMountPoint, LineNoDevice,
                   LineBadEscape, <<>>}

\* The lines, each followed by '\n'.
RECURSIVE Table(_)
Table(lines) ==
    IF lines = <<>> THEN <<>> ELSE Head(lines) \o <<NEWLINE>> \o Table(Tail(lines))

\* parse_mountinfo(first, last) on the content of a mount table.
MountinfoInit ==
    /\ \E lines \in UNION {[1..k -> MountinfoLines] : k \in 0..MaxLines} :
          mi_input = Table(lines)
    /\ mi_buf = mi_input
    /\ mi_first = 1
    /\ mi_result = <<>>
    /\ mi_pc = "loop"

MountinfoIdle ==
    /\ mi_input = <<>>
    /\ mi_buf = <<>>
    /\ mi_first = 1
    /\ mi_result = <<>>
    /\ mi_pc = "idle"

-----------------------------------------------------------------------------
(* origin::impl::location *)

\* pathname_normalize(pathname) as a function: pathname_split's loop from
\* position p, then the final invoke and the append of "/" or ".".
RECURSIVE NormalizeFrom(_, _, _, _)
NormalizeFrom(pathname, p, result, separator) ==
    LET q == Len(pathname) + 1
        r == Find(pathname, p, q, SLASH)
        kept == InvokeKeeps(pathname, p, r)
        res == IF kept THEN NormalizeAppend(result, separator, Range(pathname, p, r))
               ELSE result
    IN  IF r # q THEN NormalizeFrom(pathname, r + 1, res, separator \/ kept)
        ELSE IF res = <<>> THEN (IF Absolute(pathname) THEN <<SLASH>> ELSE <<DOT>>)
        ELSE res

PathnameNormalize(pathname) == NormalizeFrom(pathname, 1, <<>>, Absolute(pathname))

\* The filesystem as location() sees it.  The directories 1..fs.n are a
\* chain: 1 is its own parent (the root of the filesystem tree), i - 1 is
\* the parent of i, and fs.n is the directory the origin is open on.
\* Directory i has the inode number i and the device fs.dev[i]; its entry
\* in its parent is named NameOf(i) and has the kind fs.entry[i], or is
\* missing.  fs.mounts is what find_mounts() returns, each mount with the
\* inode number fstatat gives for its path (0: a directory off the chain).
\* The origin's device is called 1.
Parent(i) == IF i = 1 THEN 1 ELSE i - 1
Inode(i) == <<fs.dev[i], i>>
NameOf(i) == <<LETTERa + (i - 2)>>

\* What readdir delivers for directory i: a sibling directory, then the
\* entry of the chain's child of i when it has one.
Listing(i) ==
    <<[ino |-> 0, name |-> <<LETTERc, LETTERc>>, kind |-> "directory"]>>
    \o (IF i < fs.n /\ fs.entry[i + 1] # "missing"
        THEN <<[ino |-> i + 1, name |-> NameOf(i + 1), kind |-> fs.entry[i + 1]]>>
        ELSE <<>>)

\* int flags = O_RDONLY | O_DIRECTORY | O_NOFOLLOW | O_PATH;
LocationFlags == {"O_RDONLY", "O_DIRECTORY", "O_NOFOLLOW", "O_PATH"}

\* Whether the OS reads directory entries through a descriptor opened with
\* these flags: not through one opened with O_PATH (EBADF).
ReadableDirectory(flags) == "O_PATH" \notin flags

\* The comparison of the std::sort of roots:
\* (inode, path size, path) < (inode, path size, path).
RECURSIVE TextLess(_, _)
TextLess(a, b) ==
    IF b = <<>> THEN FALSE
    ELSE IF a = <<>> THEN TRUE
    ELSE IF Head(a) # Head(b) THEN Head(a) < Head(b)
    ELSE TextLess(Tail(a), Tail(b))

RootLessNoSize(lhs, rhs) ==
    IF lhs.ino # rhs.ino THEN lhs.ino < rhs.ino
    ELSE TextLess(lhs.path, rhs.path)
RootLess(lhs, rhs) ==
    IF lhs.ino # rhs.ino THEN lhs.ino < rhs.ino
    ELSE IF Len(lhs.path) # Len(rhs.path) THEN Len(lhs.path) < Len(rhs.path)
    ELSE TextLess(lhs.path, rhs.path)

\* std::sort(roots.begin(), roots.end(), ...)
RECURSIVE SortRoots(_)
SortRoots(roots) ==
    IF roots = <<>> THEN <<>>
    ELSE LET rest == SortRoots(Tail(roots))
             x == Head(roots)
             k == Cardinality({i \in 1..Len(rest) : RootLess(rest[i], x)})
         IN  SubSeq(rest, 1, k) \o <<x>> \o SubSeq(rest, k + 1, Len(rest))

\* std::partition_point(roots.begin(), roots.end(), r.first < ino), as
\* the binary search it is; the result is an index, Len(roots) + 1 for end().
RECURSIVE PartitionPointFrom(_, _, _, _)
PartitionPointFrom(roots, ino, first, len) ==
    IF len <= 0 THEN first
    ELSE LET half == len \div 2
             mid == first + half
         IN  IF roots[mid].ino < ino
             THEN PartitionPointFrom(roots, ino, mid + 1, len - half - 1)
             ELSE PartitionPointFrom(roots, ino, first, half)

PartitionPoint(roots, ino) == PartitionPointFrom(roots, ino, 1, Len(roots))

\* p != roots.end() && p->first == ino
RootFound(roots, ino) ==
    LET p == PartitionPoint(roots, ino)
    IN  p # Len(roots) + 1 /\ roots[p].ino = ino

\* The loop over find_mounts(): the mounts of the device, in table order,
\* each with the inode of its path.
RECURSIVE CollectRoots(_, _)
CollectRoots(mounts, device) ==
    IF mounts = <<>> THEN <<>>
    ELSE (IF Head(mounts).device = device
          THEN <<[ino |-> Head(mounts).ino, path |-> Head(mounts).path]>>
          ELSE <<>>) \o CollectRoots(Tail(mounts), device)

\* The visitor of the scan: the name of the first directory-kind entry with
\* the inode, or <<>> when the scan returns false.
RECURSIVE ScanForInode(_, _)
ScanForInode(entries, ino) ==
    IF entries = <<>> THEN [found |-> FALSE, name |-> <<>>]
    ELSE IF Head(entries).kind # "directory" THEN ScanForInode(Tail(entries), ino)
    ELSE IF Head(entries).ino # ino THEN ScanForInode(Tail(entries), ino)
    ELSE [found |-> TRUE, name |-> Head(entries).name]

\* while (!names.empty()) { result.append(1, '/'); result.append(names.back()); names.pop_back(); }
RECURSIVE AppendNames(_, _)
AppendNames(result, names) ==
    IF names = <<>> THEN result
    ELSE AppendNames(result \o <<SLASH>> \o names[Len(names)], SubSeq(names, 1, Len(names) - 1))

Returned(text) == [kind |-> "returned", text |-> text, tag |-> "none"]
Raised(tag) == [kind |-> "raised", text |-> <<>>, tag |-> tag]

\* location() up to the loop: previous, roots, the check whether the
\* directory is itself a mount point, and the open of "..".
LocationBegin ==
    /\ loc_pc = "entry"
    /\ LET previous == Inode(fs.n)
           roots == SortRoots(CollectRoots(fs.mounts, previous[1]))
           p == PartitionPoint(roots, previous[2])
       IN  /\ loc_previous' = previous
           /\ loc_roots' = roots
           /\ IF RootFound(roots, previous[2])
              THEN /\ loc_result' = Returned(PathnameNormalize(roots[p].path))
                   /\ loc_pc' = "done"
                   /\ UNCHANGED <<loc_current, loc_next, loc_opens>>
              ELSE /\ loc_current' = [dir |-> Parent(fs.n), flags |-> LocationFlags]
                   /\ loc_next' = Inode(Parent(fs.n))
                   /\ loc_opens' = loc_opens + 1
                   /\ loc_pc' = "walk"
                   /\ UNCHANGED loc_result
    /\ UNCHANGED <<fs, loc_names, exceptLocation>>

\* while (previous.first == next.first && previous.second != next.second)
WalkGoesOnSameDevice(previous, next) == previous[1] = next[1]
WalkGoesOn(previous, next) == previous[1] = next[1] /\ previous[2] # next[2]

\* One turn of the loop.  scanError is the error the scan of a descriptor
\* that cannot be read ends with: fdopendir's or readdir_r's.
LocationWalk(scanError) ==
    /\ loc_pc = "walk"
    /\ WalkGoesOn(loc_previous, loc_next)
    /\ LET parent == [dir |-> Parent(loc_current.dir), flags |-> LocationFlags]
           scan == ScanForInode(Listing(loc_current.dir), loc_previous[2])
           names == Append(loc_names, scan.name)
           q == PartitionPoint(loc_roots, loc_next[2])
       IN  /\ loc_opens' = loc_opens + 1
           /\ IF ~ReadableDirectory(loc_current.flags)
              THEN /\ loc_result' = Raised(scanError)
                   /\ loc_pc' = "raised"
                   /\ UNCHANGED <<loc_previous, loc_next, loc_current, loc_names>>
              ELSE IF ~scan.found
              THEN /\ loc_result' = Raised("fs-resolve-error")
                   /\ loc_pc' = "raised"
                   /\ UNCHANGED <<loc_previous, loc_next, loc_current, loc_names>>
              ELSE IF RootFound(loc_roots, loc_next[2])
              THEN /\ loc_result' =
                         Returned(PathnameNormalize(AppendNames(loc_roots[q].path, names)))
                   /\ loc_names' = <<>>
                   /\ loc_pc' = "done"
                   /\ UNCHANGED <<loc_previous, loc_next, loc_current>>
              ELSE /\ loc_names' = names
                   /\ loc_previous' = loc_next
                   /\ loc_next' = Inode(parent.dir)
                   /\ loc_current' = parent
                   /\ UNCHANGED <<loc_pc, loc_result>>
    /\ UNCHANGED <<fs, loc_roots, exceptLocation>>

\* The loop ends: UP_RAISE(runtime, "fs-resolve-error"_s, dir_fd).
LocationGiveUp ==
    /\ loc_pc = "walk"
    /\ ~WalkGoesOn(loc_previous, loc_next)
    /\ loc_result' = Raised("fs-resolve-error")
    /\ loc_pc' = "raised"
    /\ UNCHANGED <<fs, loc_roots, loc_previous, loc_next, loc_current, loc_names, loc_opens,
                   exceptLocation>>

\* The filesystems the specification starts from.
MountPaths == {<<SLASH, LETTERa>>, <<SLASH, LETTERb>>, <<SLASH, LETTERa, LETTERa>>}
Devices == {1, 2}
EntryKinds == {"directory", "unknown", "missing"}

Filesystems ==
    UNION {
        [n : {n},
         dev : {d \in [1..n -> Devices] : d[n] = 1},
         entry : [2..n -> EntryKinds],
         mounts : UNION {[1..k -> [device : Devices, path : MountPaths, ino : 0..n]]
                           : k \in 0..MaxMounts}]
        : n \in 1..MaxDepth}

LocationInit ==
    /\ fs \in Filesystems
    /\ loc_pc = "entry"
    /\ loc_roots = <<>>
    /\ loc_previous = <<0, 0>>
    /\ loc_next = <<0, 0>>
    /\ loc_current = [dir |-> 0, flags |-> {}]
    /\ loc_names = <<>>
    /\ loc_opens = 0
    /\ loc_result = [kind |-> "none", text |-> <<>>, tag |-> "none"]

LocationIdle ==
    /\ fs = [n |-> 1, dev |-> <<1>>, entry |-> <<>>, mounts |-> <<>>]
    /\ loc_pc = "idle"
    /\ loc_roots = <<>>
    /\ loc_previous = <<0, 0>>
    /\ loc_next = <<0, 0>>
    /\ loc_current = [dir |-> 0, flags |-> {}]
    /\ loc_names = <<>>
    /\ loc_opens = 0
    /\ loc_result = [kind |-> "none", text |-> <<>>, tag |-> "none"]

-----------------------------------------------------------------------------
(* origin::operator(), path::impl *)

\* AT_FDCWD, the directory descriptor that stands for the working directory.
AT_FDCWD == -100

\* origin::impl: its context and its _handle (EmptyFd for working()).
Contexts == {1}
OriginDescriptor == 3
Origins == [context : Contexts, handle : {EmptyFd, OriginDescriptor}]

\* handle::get_or(alternate)
get_or(fd, alternate) == IF fd = EmptyFd THEN alternate ELSE fd
\* origin::impl::dir_fd()
dir_fd(origin) == get_or(origin.handle, AT_FDCWD)
\* origin::impl::working(): make_shared<const self>(_context)
working(origin) == [context |-> origin.context, handle |-> EmptyFd]

Paths == 1..NumPaths
NoPath == [origin |-> [context |-> 0, handle |-> EmptyFd], pathname |-> <<>>, follow |-> FALSE,
           made |-> FALSE]
\* path::impl(origin, pathname, follow)
PathImpl(origin, pathname, follow) ==
    [origin |-> origin, pathname |-> pathname, follow |-> follow, made |-> TRUE]

\* pathname.compare(0, 1, "/") == 0
StartsWithSlash(pathname) == pathname # <<>> /\ Head(pathname) = SLASH

\* path::impl::follow(value)
impl_follow(path, value) == PathImpl(path.origin, path.pathname, value)

\* path::impl::joined(pathname)
JoinedOriginKept(path) == path.origin
JoinedOrigin(path) == working(path.origin)
impl_joined(path, pathname) ==
    IF StartsWithSlash(pathname)
    THEN PathImpl(JoinedOrigin(path), pathname, path.follow)
    ELSE PathImpl(path.origin, PathnameNormalize(path.pathname \o <<SLASH>> \o pathname),
                  path.follow)

\* flags_follow(additional, base), flags_nofollow(additional, base)
flags_follow(path, additional, base) == IF path.follow THEN base \cup additional ELSE base
flags_nofollow(path, additional, base) == IF path.follow THEN base ELSE base \cup additional

\* The flags each OS call accepts; any other flag makes it fail with EINVAL.
AcceptedFlags(call) ==
    CASE call = "fstatat" -> {"AT_SYMLINK_NOFOLLOW", "AT_EMPTY_PATH", "AT_NO_AUTOMOUNT"}
      [] call = "fchmodat" -> {"AT_SYMLINK_NOFOLLOW"}
      [] call = "fchownat" -> {"AT_SYMLINK_NOFOLLOW", "AT_EMPTY_PATH"}
      [] OTHER -> {}

\* The OS call of an operation on a Path: the call, its directory, its
\* pathname and its flags.
OsCall(call, path, flags) ==
    [call |-> call, dirfd |-> dir_fd(path.origin), pathname |-> path.pathname, flags |-> flags]

\* The OS calls the construction of a path::impl makes.
DerivingCallsOpen(path) == <<OsCall("openat", path, {})>>
DerivingCalls(path) == <<>>

PathOp(kind, receiver, result, name, calls) ==
    [kind |-> kind, receiver |-> receiver, result |-> result, name |-> name, calls |-> calls]

CreateNames == {<<LETTERa>>, <<SLASH, LETTERa>>}
JoinedNames == {<<LETTERb>>, <<SLASH, LETTERb>>, <<DOT>>, <<>>}

\* origin::operator()(pathname, follow): a new path::impl in the free slot s.
PathCreate(s, origin, pathname, value) ==
    /\ ~p_paths[s].made
    /\ p_paths' = [p_paths EXCEPT ![s] = PathImpl(origin, pathname, value)]
    /\ p_op' = PathOp("create", 0, s, pathname, DerivingCalls(p_paths'[s]))
    /\ UNCHANGED exceptPath

\* path::follow(value): the result is a new path::impl in the free slot s.
PathFollow(r, s, value) ==
    /\ p_paths[r].made /\ ~p_paths[s].made
    /\ p_paths' = [p_paths EXCEPT ![s] = impl_follow(p_paths[r], value)]
    /\ p_op' = PathOp("follow", r, s, <<>>, DerivingCalls(p_paths'[s]))
    /\ UNCHANGED exceptPath

\* path::joined(pathname): the result is a new path::impl in the free slot s.
PathJoined(r, s, pathname) ==
    /\ p_paths[r].made /\ ~p_paths[s].made
    /\ Len(impl_joined(p_paths[r], pathname).pathname) <= MaxNameLen
    /\ p_paths' = [p_paths EXCEPT ![s] = impl_joined(p_paths[r], pathname)]
    /\ p_op' = PathOp("joined", r, s, pathname, DerivingCalls(p_paths'[s]))
    /\ UNCHANGED exceptPath

\* The last owner of the path::impl in slot s lets go of it.
PathDestroy(s) ==
    /\ p_paths[s].made
    /\ p_paths' = [p_paths EXCEPT ![s] = NoPath]
    /\ p_op' = PathOp("destroy", s, 0, <<>>, <<>>)
    /\ UNCHANGED exceptPath

\* path::impl::stat(): fstatat with flags_follow(AT_SYMLINK_FOLLOW).
PathStat(r) ==
    /\ p_paths[r].made
    /\ p_op' = PathOp("stat", r, 0, <<>>,
                      <<OsCall("fstatat", p_paths[r],
                               flags_follow(p_paths[r], {"AT_SYMLINK_FOLLOW"}, {}))>>)
    /\ UNCHANGED <<p_paths, exceptPath>>

\* path::impl::chmod(mode): fchmodat with flags_nofollow(AT_SYMLINK_NOFOLLOW).
PathChmod(r) ==
    /\ p_paths[r].made
    /\ p_op' = PathOp("chmod", r, 0, <<>>,
                      <<OsCall("fchmodat", p_paths[r],
                               flags_nofollow(p_paths[r], {"AT_SYMLINK_NOFOLLOW"}, {}))>>)
    /\ UNCHANGED <<p_paths, exceptPath>>

\* path::impl::chown(owner, group): fchownat with flags_nofollow(AT_SYMLINK_NOFOLLOW).
PathChown(r) ==
    /\ p_paths[r].made
    /\ p_op' = PathOp("chown", r, 0, <<>>,
                      <<OsCall("fchownat", p_paths[r],
                               flags_nofollow(p_paths[r], {"AT_SYMLINK_NOFOLLOW"}, {}))>>)
    /\ UNCHANGED <<p_paths, exceptPath>>

PathInit ==
    /\ p_paths = [s \in Paths |-> NoPath]
    /\ p_op = PathOp("none", 0, 0, <<>>, <<>>)

PathIdle == PathInit

-----------------------------------------------------------------------------
(* getcwd, path::impl::readlink *)

\* for (std::size_t i = 8; i <= 16; ++i)
FirstShift == 8
LastShift == 16
\* std::size_t size = 1 << i
BufferSize(i) == 2^i

\* What the OS finds at a call: the length of the working directory or of
\* the link target, or an error.
TextLengths == {0, 255, 256, 257, 511, 512, 32768, 65535, 65536, 65537}
OtherErrnos == {"EACCES", "ENOENT"}
Findings ==
    {[length |-> n, errno |-> "none"] : n \in TextLengths}
    \cup {[length |-> -1, errno |-> e] : e \in OtherErrnos}

\* ::getcwd(buffer, size): the text with its NUL fits, or NULL with ERANGE;
\* NULL with another errno.
GetcwdAnswer(size, found) ==
    IF found.errno # "none" THEN [cwd |-> -1, errno |-> found.errno]
    ELSE IF found.length + 1 <= size THEN [cwd |-> found.length, errno |-> "none"]
    ELSE [cwd |-> -1, errno |-> "ERANGE"]

\* ::readlinkat(dirfd, pathname, buffer, size): the number of bytes put in
\* the buffer, at most size; -1 with an errno.
ReadlinkAnswer(size, found) ==
    IF found.errno # "none" THEN [rv |-> -1, errno |-> found.errno]
    ELSE [rv |-> IF found.length <= size THEN found.length ELSE size, errno |-> "none"]

GrowReturned(n) == [tag |-> "returned", length |-> n, error |-> "none"]
GrowRaised(error) == [tag |-> "raised", length |-> -1, error |-> error]
GrowNothing == [tag |-> "none", length |-> -1, error |-> "none"]

\* One turn of getcwd's loop.
GetcwdAttempt(found) ==
    LET answer == GetcwdAnswer(BufferSize(g_i), found) IN
    /\ g_pc = "loop" /\ g_fn = "getcwd" /\ g_i <= LastShift
    /\ g_attempts' = Append(g_attempts, [size |-> BufferSize(g_i), rv |-> answer.cwd,
                                         errno |-> answer.errno])
    /\ IF answer.cwd # -1
       THEN g_pc' = "done" /\ g_result' = GrowReturned(answer.cwd) /\ g_i' = g_i
       ELSE IF answer.errno # "ERANGE"
       THEN g_pc' = "raised" /\ g_result' = GrowRaised("fs-getcwd-error") /\ g_i' = g_i
       ELSE g_pc' = "loop" /\ g_result' = g_result /\ g_i' = g_i + 1
    /\ UNCHANGED <<g_fn, exceptGrow>>

\* if (static_cast<std::size_t>(rv) < size) return ...
ReadlinkFitsFull(rv, size) == rv <= size
ReadlinkFits(rv, size) == rv < size

\* One turn of readlink's loop.
ReadlinkAttempt(found) ==
    LET answer == ReadlinkAnswer(BufferSize(g_i), found) IN
    /\ g_pc = "loop" /\ g_fn = "readlink" /\ g_i <= LastShift
    /\ g_attempts' = Append(g_attempts, [size |-> BufferSize(g_i), rv |-> answer.rv,
                                         errno |-> answer.errno])
    /\ IF answer.rv < 0
       THEN g_pc' = "raised" /\ g_result' = GrowRaised("fs-readlink-error") /\ g_i' = g_i
       ELSE IF ReadlinkFits(answer.rv, BufferSize(g_i))
       THEN g_pc' = "done" /\ g_result' = GrowReturned(answer.rv) /\ g_i' = g_i
       ELSE g_pc' = "loop" /\ g_result' = g_result /\ g_i' = g_i + 1
    /\ UNCHANGED <<g_fn, exceptGrow>>

\* The loop has ended: UP_RAISE(runtime, "fs-getcwd-error" / "fs-readlink-error").
GrowGiveUp ==
    /\ g_pc = "loop" /\ g_i > LastShift
    /\ g_pc' = "raised"
    /\ g_result' = GrowRaised(IF g_fn = "getcwd" THEN "fs-getcwd-error" ELSE "fs-readlink-error")
    /\ UNCHANGED <<g_fn, g_i, g_attempts, exceptGrow>>

GrowInit ==
    /\ g_fn \in {"getcwd", "readlink"}
    /\ g_i = FirstShift
    /\ g_attempts = <<>>
    /\ g_result = GrowNothing
    /\ g_pc = "loop"

GrowIdle ==
    /\ g_fn = "none"
    /\ g_i = FirstShift
    /\ g_attempts = <<>>
    /\ g_result = GrowNothing
    /\ g_pc = "idle"

-----------------------------------------------------------------------------
(* file::file *)

\* The bits of the open flags and of the creation mode (Linux, x86-64).
O_RDONLY == 0
O_WRONLY == 1
O_RDWR == 2
O_ACCMODE == 3
O_CREAT == 64
O_EXCL == 128
O_TRUNC == 512
O_APPEND == 1024
O_DIRECTORY == 65536
O_NOFOLLOW == 131072
O_TMPFILE == 4194304 + O_DIRECTORY
S_IRUSR == 256
S_IWUSR == 128
S_IXUSR == 64
S_IRGRP == 32
S_IWGRP == 16
S_IXGRP == 8
S_IROTH == 4
S_IWOTH == 2
S_IXOTH == 1

\* a | b and a & b on non-negative integers
RECURSIVE BitOr(_, _)
BitOr(a, b) ==
    IF a = 0 THEN b
    ELSE IF b = 0 THEN a
    ELSE (IF a % 2 = 1 \/ b % 2 = 1 THEN 1 ELSE 0) + 2 * BitOr(a \div 2, b \div 2)

RECURSIVE BitAnd(_, _)
BitAnd(a, b) ==
    IF a = 0 \/ b = 0 THEN 0
    ELSE (IF a % 2 = 1 /\ b % 2 = 1 THEN 1 ELSE 0) + 2 * BitAnd(a \div 2, b \div 2)

\* file::option
Options == {"read", "write", "append", "create", "exclusive", "tmpfile", "truncate",
            "executable", "group", "others"}

\* options.all(...): every one of the given options is set.
OptionsAll(options, given) == given \subseteq options

\* flags |= bit when the options are all set.
FlagIf(flags, options, given, bit) ==
    IF OptionsAll(options, given) THEN BitOr(flags, bit) ELSE flags

\* if (all(read, write)) O_RDWR else if (all(read)) O_RDONLY else if
\* (all(write)) O_WRONLY
AccessModeReadFirst(options) ==
    IF OptionsAll(options, {"read"}) THEN O_RDONLY
    ELSE IF OptionsAll(options, {"write"}) THEN O_WRONLY
    ELSE 0
AccessMode(options) ==
    IF OptionsAll(options, {"read", "write"}) THEN O_RDWR
    ELSE IF OptionsAll(options, {"read"}) THEN O_RDONLY
    ELSE IF OptionsAll(options, {"write"}) THEN O_WRONLY
    ELSE 0

\* int flags = 0; ... if (options.all(o::truncate)) flags |= O_TRUNC;
DeriveFlags(options) ==
    LET f0 == BitOr(0, AccessMode(options))
        f1 == FlagIf(f0, options, {"append"}, O_APPEND)
        f2 == FlagIf(f1, options, {"create"}, O_CREAT)
        f3 == FlagIf(f2, options, {"exclusive"}, O_EXCL)
        f4 == FlagIf(f3, options, {"tmpfile"}, O_TMPFILE)
    IN  FlagIf(f4, options, {"truncate"}, O_TRUNC)

\* The options that add S_IXGRP and S_IXOTH.
GroupExecuteAlone == {"group"}
GroupExecute == {"group", "executable"}
OthersExecute == {"others", "executable"}

\* mode_t mode = S_IRUSR | S_IWUSR; ... mode |= S_IXOTH;
DeriveMode(options) ==
    LET m0 == BitOr(S_IRUSR, S_IWUSR)
        m1 == FlagIf(m0, options, {"executable"}, S_IXUSR)
        m2 == FlagIf(m1, options, {"group"}, BitOr(S_IRGRP, S_IWGRP))
        m3 == FlagIf(m2, options, GroupExecute, S_IXGRP)
        m4 == FlagIf(m3, options, {"others"}, BitOr(S_IROTH, S_IWOTH))
    IN  FlagIf(m4, options, OthersExecute, S_IXOTH)

\* Lines 1116-1138: the flags.
FileDeriveFlags ==
    /\ f_pc = "flags"
    /\ f_flags' = DeriveFlags(f_options)
    /\ f_pc' = "mode"
    /\ UNCHANGED <<f_options, f_mode, f_call, exceptFile>>

\* Lines 1139-1154: the mode.
FileDeriveMode ==
    /\ f_pc = "mode"
    /\ f_mode' = DeriveMode(f_options)
    /\ f_pc' = "open"
    /\ UNCHANGED <<f_options, f_flags, f_call, exceptFile>>

\* p->make_handle(flags, mode): flags |= _follow ? 0 : O_NOFOLLOW, then
\* origin::impl::make_handle hands both to openat.
FileMakeHandle(value) ==
    /\ f_pc = "open"
    /\ f_call' = [flags |-> BitOr(f_flags, IF value THEN 0 ELSE O_NOFOLLOW), mode |-> f_mode]
    /\ f_pc' = "done"
    /\ UNCHANGED <<f_options, f_flags, f_mode, exceptFile>>

NoCall == [flags |-> -1, mode |-> -1]

FileInit ==
    /\ f_options \in SUBSET Options
    /\ f_flags = 0
    /\ f_mode = 0
    /\ f_call = NoCall
    /\ f_pc = "flags"

FileIdle ==
    /\ f_options = {}
    /\ f_flags = 0
    /\ f_mode = 0
    /\ f_call = NoCall
    /\ f_pc = "idle"

-----------------------------------------------------------------------------
(* file::read_some, file::write_some *)

\* The four functions, the OS call each makes and the tag each raises.
TransferFunctions == {"read_some", "write_some", "read_some_bulk", "write_some_bulk"}
OsCallOf ==
    [read_some |-> "pread", write_some |-> "pwrite", read_some_bulk |-> "preadv",
     write_some_bulk |-> "pwritev"]
ErrorTagOf ==
    [read_some |-> "fs-read-error", write_some |-> "fs-write-error",
     read_some_bulk |-> "fs-readv-error", write_some_bulk |-> "fs-writev-error"]

\* The arguments: _impl->fd(), the buffers (their total size) and the offset.
TransferArgs == [fn : TransferFunctions, fd : {3}, size : {0, 4}, offset : {0, 8}]
NoTransfer == [fn |-> "none", fd |-> -1, size |-> 0, offset |-> 0]

\* What the OS answers: a byte count up to the size, or -1 with an errno.
TransferAnswers ==
    {[rv |-> n, errno |-> "none"] : n \in {0, 1, 4}}
    \cup {[rv |-> -1, errno |-> e] : e \in {"EINTR", "EIO", "EBADF"}}

\* else if (errno == EINTR): continue
InterruptedNever(answer) == FALSE
Interrupted(answer) == answer.errno = "EINTR"

TransferReturned(n) == [tag |-> "returned", count |-> n, error |-> "none", errno |-> "none"]
TransferRaised(error, errno) == [tag |-> "raised", count |-> -1, error |-> error, errno |-> errno]
TransferNothing == [tag |-> "none", count |-> -1, error |-> "none", errno |-> "none"]

\* One turn of for (;;) in any of the four functions.
TransferAttempt(answer) ==
    /\ rw_pc = "loop"
    /\ answer.rv <= rw_args.size
    /\ Interrupted(answer) => Len(rw_attempts) < MaxInterrupted
    /\ rw_attempts' = Append(rw_attempts,
           [call |-> OsCallOf[rw_args.fn], fd |-> rw_args.fd, size |-> rw_args.size,
            offset |-> rw_args.offset, rv |-> answer.rv, errno |-> answer.errno])
    /\ IF answer.rv # -1
       THEN rw_pc' = "done" /\ rw_result' = TransferReturned(answer.rv)
       ELSE IF Interrupted(answer)
       THEN rw_pc' = "loop" /\ rw_result' = rw_result
       ELSE /\ rw_pc' = "raised"
            /\ rw_result' = TransferRaised(ErrorTagOf[rw_args.fn], answer.errno)
    /\ UNCHANGED <<rw_args, exceptTransfer>>

TransferInit ==
    /\ rw_args \in TransferArgs
    /\ rw_attempts = <<>>
    /\ rw_result = TransferNothing
    /\ rw_pc = "loop"

TransferIdle ==
    /\ rw_args = NoTransfer
    /\ rw_attempts = <<>>
    /\ rw_result = TransferNothing
    /\ rw_pc = "idle"

-----------------------------------------------------------------------------
(* directory::impl, directory::list *)

Directories == 1..NumDirectories
FirstFd == 3

\* The descriptor the OS hands out: the lowest one that is not open.
LowestFree(fds) ==
    CHOOSE n \in FirstFd..(FirstFd + Cardinality(fds)) :
        n \notin fds /\ \A k \in FirstFd..(n - 1) : k \in fds

\* _impl.unique(): this Directory is the only owner of the impl.
UniqueAlways(d) == TRUE
Unique(d) == d_holders[d] = 1

NoList == [kind |-> "none", dir |-> 0, shared |-> FALSE, before |-> EmptyFd,
           scanned |-> EmptyFd, opens |-> <<>>, raised |-> "none"]

\* directory::directory(path): make_handle(O_RDONLY | O_DIRECTORY), one owner.
DirectoryOpen(d) ==
    /\ d_holders[d] = 0
    /\ d_handle' = [d_handle EXCEPT ![d] = LowestFree(d_fds)]
    /\ d_fds' = d_fds \cup {LowestFree(d_fds)}
    /\ d_holders' = [d_holders EXCEPT ![d] = 1]
    /\ d_op' = NoList
    /\ UNCHANGED exceptDirectory

\* A copy of the Directory, or operator object(): one more owner of _impl.
DirectoryShare(d) ==
    /\ d_holders[d] >= 1 /\ d_holders[d] < MaxHolders
    /\ d_holders' = [d_holders EXCEPT ![d] = @ + 1]
    /\ d_op' = NoList
    /\ UNCHANGED <<d_handle, d_fds, exceptDirectory>>

\* An owner is destroyed; the last one destroys the impl, whose handle
\* closes its descriptor.
DirectoryDrop(d) ==
    /\ d_holders[d] >= 1
    /\ d_holders' = [d_holders EXCEPT ![d] = @ - 1]
    /\ IF d_holders[d] = 1
       THEN /\ d_fds' = d_fds \ {d_handle[d]}
            /\ d_handle' = [d_handle EXCEPT ![d] = EmptyFd]
       ELSE UNCHANGED <<d_handle, d_fds>>
    /\ d_op' = NoList
    /\ UNCHANGED exceptDirectory

\* scan_directory(unique_handle(movable)): with movable the impl's own
\* handle is moved out and scanned; else "." is opened relative to it and
\* that handle is scanned.  The scan closes the descriptor it is given.
\* openat on an impl whose handle was given up fails with EBADF.
List(kind, d, movable) ==
    /\ d_holders[d] >= 1
    /\ IF movable
       THEN /\ d_handle' = [d_handle EXCEPT ![d] = EmptyFd]
            /\ d_fds' = d_fds \ {d_handle[d]}
            /\ d_op' = [kind |-> kind, dir |-> d, shared |-> d_holders[d] > 1,
                        before |-> d_handle[d], scanned |-> d_handle[d], opens |-> <<>>,
                        raised |-> "none"]
       ELSE /\ UNCHANGED <<d_handle, d_fds>>
            /\ d_op' = [kind |-> kind, dir |-> d, shared |-> d_holders[d] > 1,
                        before |-> d_handle[d],
                        scanned |-> IF d_handle[d] = EmptyFd THEN EmptyFd
                                    ELSE LowestFree(d_fds),
                        opens |-> <<[dirfd |-> d_handle[d], pathname |-> <<DOT>>,
                                     flags |-> {"O_RDONLY", "O_DIRECTORY", "O_NOFOLLOW"}]>>,
                        raised |-> IF d_handle[d] = EmptyFd THEN "fs-open-error" ELSE "none"]
    /\ UNCHANGED <<d_holders, exceptDirectory>>

\* directory::list() const & and list(visitor) const &
ListLvalue(d) == List("lvalue", d, FALSE)

\* directory::list() && and list(visitor) &&
ListRvalue(d) == List("rvalue", d, Unique(d))

DirectoryInit ==
    /\ d_handle = [d \in Directories |-> EmptyFd]
    /\ d_holders = [d \in Directories |-> 0]
    /\ d_fds = {}
    /\ d_op = NoList

DirectoryIdle == DirectoryInit

-----------------------------------------------------------------------------
(* map_dirent_type_to_kind, scan_directory *)

\* d_type (dirent.h)
DT_UNKNOWN == 0
DT_FIFO == 1
DT_CHR == 2
DT_DIR == 4
DT_BLK == 6
DT_REG == 8
DT_LNK == 10
DT_SOCK == 12
\* A d_type the switch has no case for.
DT_WHT == 14

\* switch (type) { case DT_BLK: return kind::block_device; ... default: UP_RAISE }
map_dirent_type_to_kind(type) ==
    CASE type = DT_BLK -> "block_device"
      [] type = DT_CHR -> "character_device"
      [] type = DT_DIR -> "directory"
      [] type = DT_FIFO -> "named_pipe"
      [] type = DT_LNK -> "symbolic_link"
      [] type = DT_REG -> "regular_file"
      [] type = DT_SOCK -> "socket"
      [] type = DT_UNKNOWN -> "unknown"
      [] OTHER -> "fs-bad-type-error"

\* std::strcmp(de->d_name, ".") == 0 || std::strcmp(de->d_name, "..") == 0
IsDotEntryByPrefix(name) == name # <<>> /\ Head(name) = DOT
IsDotEntry(name) == name = <<DOT>> \/ name = <<DOT, DOT>>

\* if (visitor(...)) return true;
VisitorStopsNever(answer) == FALSE
VisitorStops(answer) == answer

\* up_fs::fs::directory_entry(de->d_ino, de->d_name, kind)
directory_entry(de) == [ino |-> de.ino, name |-> de.name, kind |-> map_dirent_type_to_kind(de.type)]

\* The entries a directory delivers: "." and ".." as directories, and
\* others of several types.
Dirents ==
    {[ino |-> 1, name |-> <<DOT>>, type |-> DT_DIR],
     [ino |-> 2, name |-> <<DOT, DOT>>, type |-> DT_DIR]}
    \cup [ino : {5}, name : {<<LETTERa>>}, type : {DT_DIR, DT_REG, DT_WHT}]
    \cup [ino : {6}, name : {<<DOT, LETTERa>>}, type : {DT_UNKNOWN, DT_LNK}]
Deliveries == UNION {[1..k -> Dirents] : k \in 0..MaxEntries}

ScanReturned(found, entries) ==
    [tag |-> "returned", found |-> found, entries |-> entries, error |-> "none"]
ScanRaised(error) == [tag |-> "raised", found |-> FALSE, entries |-> <<>>, error |-> error]
ScanNothing == [tag |-> "none", found |-> FALSE, entries |-> <<>>, error |-> "none"]

\* handle.release(): what it leaves in the handle.
ReleasedFdKept(fd) == fd
ReleasedFd(fd) == EmptyFd

\* The end of the call: the deferred ::closedir closes the stream's
\* descriptor when the stream was opened, the caller's handle closes the
\* descriptor it still holds; a failing close ends the process.
ScanLeave(opened, pc, result, rv) ==
    /\ sd_closes' = [stream |-> sd_closes.stream + (IF opened THEN 1 ELSE 0),
                     handle |-> sd_closes.handle + (IF sd_handle # EmptyFd THEN 1 ELSE 0)]
    /\ sd_handle' = EmptyFd
    /\ IF rv # 0
       THEN sd_pc' = "terminated" /\ sd_result' = sd_result
       ELSE sd_pc' = pc /\ sd_result' = result

\* DIR* dirp = ::fdopendir(fd); if (dirp == nullptr) UP_RAISE; UP_DEFER
\* closedir; handle.release()
ScanOpendir(ok, rv) ==
    /\ sd_pc = "entry"
    /\ IF ok
       THEN /\ rv = 0
            /\ sd_pc' = "loop" /\ sd_result' = sd_result
            /\ sd_handle' = ReleasedFd(sd_handle)
            /\ UNCHANGED sd_closes
       ELSE ScanLeave(FALSE, "raised", ScanRaised("fs-opendir-error"), rv)
    /\ UNCHANGED <<sd_collect, sd_entries, sd_end, sd_read, sd_visited, sd_vector,
                   exceptScan>>

\* One turn of for (;;): readdir_r, the test for "." and "..", the kind,
\* the visitor.  The visitor of scan_directory(handle) pushes the entry to
\* result and returns false; the answer of any other visitor is its own.
ScanTurn(answer, rv) ==
    /\ sd_pc = "loop"
    /\ IF sd_read = Len(sd_entries)
       THEN /\ answer = FALSE
            /\ IF sd_end = "error"
               THEN ScanLeave(TRUE, "raised", ScanRaised("fs-readdir-error"), rv)
               ELSE ScanLeave(TRUE, "done", ScanReturned(FALSE, sd_vector), rv)
            /\ UNCHANGED <<sd_read, sd_visited, sd_vector>>
       ELSE LET de == sd_entries[sd_read + 1]
            IN  /\ sd_read' = sd_read + 1
                /\ IF IsDotEntry(de.name)
                   THEN /\ answer = FALSE /\ rv = 0
                        /\ UNCHANGED <<sd_visited, sd_vector, sd_result, sd_handle,
                                       sd_closes, sd_pc>>
                   ELSE IF map_dirent_type_to_kind(de.type) = "fs-bad-type-error"
                   THEN /\ answer = FALSE
                        /\ ScanLeave(TRUE, "raised", ScanRaised("fs-bad-type-error"), rv)
                        /\ UNCHANGED <<sd_visited, sd_vector>>
                   ELSE /\ sd_collect => answer = FALSE
                        /\ sd_visited' = Append(sd_visited,
                               [entry |-> directory_entry(de), answer |-> answer])
                        /\ sd_vector' = IF sd_collect THEN Append(sd_vector, directory_entry(de))
                                        ELSE sd_vector
                        /\ IF VisitorStops(answer)
                           THEN ScanLeave(TRUE, "done", ScanReturned(TRUE, sd_vector'), rv)
                           ELSE /\ rv = 0
                                /\ UNCHANGED <<sd_pc, sd_result, sd_handle, sd_closes>>
    /\ UNCHANGED <<sd_collect, sd_entries, sd_end, exceptScan>>

\* A turn in which the caller's visitor raises an error of its own: the
\* error leaves scan_directory.
ScanVisitorRaises(rv) ==
    /\ sd_pc = "loop"
    /\ ~sd_collect
    /\ sd_read < Len(sd_entries)
    /\ LET de == sd_entries[sd_read + 1]
       IN  /\ ~IsDotEntry(de.name)
           /\ map_dirent_type_to_kind(de.type) # "fs-bad-type-error"
    /\ sd_read' = sd_read + 1
    /\ ScanLeave(TRUE, "raised", ScanRaised("visitor-error"), rv)
    /\ UNCHANGED <<sd_collect, sd_entries, sd_end, sd_visited, sd_vector, exceptScan>>

ScanInit ==
    /\ sd_collect \in BOOLEAN
    /\ sd_entries \in Deliveries
    /\ sd_end \in {"end", "error"}
    /\ sd_read = 0
    /\ sd_visited = <<>>
    /\ sd_vector = <<>>
    /\ sd_result = ScanNothing
    /\ sd_handle = FirstFd
    /\ sd_closes = [stream |-> 0, handle |-> 0]
    /\ sd_pc = "entry"

ScanIdle ==
    /\ sd_collect = FALSE
    /\ sd_entries = <<>>
    /\ sd_end = "end"
    /\ sd_read = 0
    /\ sd_visited = <<>>
    /\ sd_vector = <<>>
    /\ sd_result = ScanNothing
    /\ sd_handle = EmptyFd
    /\ sd_closes = [stream |-> 0, handle |-> 0]
    /\ sd_pc = "idle"

-----------------------------------------------------------------------------
(* file::channel *)

\* The bytes of the two files, the pipe's capacity and the sizes asked for.
ChannelAlphabet == {LETTERa, LETTERb}
Sources == Texts(ChannelAlphabet, MaxFileLen)
Destinations == {<<>>, [i \in 1..(MaxFileLen + 1) |-> LETTERc]}
Chunks == 1..MaxChunk

Min(a, b) == IF a < b THEN a ELSE b
Max(a, b) == IF a > b THEN a ELSE b

\* ::splice from a file at an offset into a pipe: the counts it can return
\* (0 only at the end of the file or for size 0), -1 for a failure.
SpliceFromFile(file, offset, size, pipe) ==
    LET room == Min(Min(size, Len(file) - offset), PipeCapacity - Len(pipe))
    IN  (IF size = 0 \/ Len(file) <= offset THEN {0} ELSE 1..room) \cup {-1}

\* ::splice from a pipe into a file: the counts it can return, -1 for a
\* failure.
SpliceFromPipe(pipe, size) ==
    (IF size = 0 THEN {0} ELSE 1..Min(size, Len(pipe))) \cup {-1}

\* The answers ::splice can give at all.
SpliceAnswers == -1..Max(MaxChunk, PipeCapacity)

\* The file after bytes were written at an offset.
WriteAt(file, offset, bytes) ==
    [i \in 1..Max(Len(file), offset + Len(bytes)) |->
        IF i > offset /\ i <= offset + Len(bytes) THEN bytes[i - offset]
        ELSE IF i <= Len(file) THEN file[i]
        ELSE NUL]

\* The offset drain hands to ::splice for the file's side.
DrainOffsetStart(offset) == 0
DrainOffset(offset) == offset

NoChannelCall == [fn |-> "none", size |-> 0, offset |-> 0, rv |-> 0]

\* channel::impl::fill(source, size, offset), called by the loop at its
\* running offset.
ChannelFill(rv) ==
    /\ ch_pc = "fill"
    /\ rv \in SpliceFromFile(ch_source, ch_offset, ch_chunk, ch_pipe)
    /\ ch_last' = [fn |-> "fill", size |-> ch_chunk, offset |-> ch_offset, rv |-> rv]
    /\ IF Check([rv |-> rv, errno |-> "EIO"]).kind = "raised"
       THEN /\ ch_pc' = "raised"
            /\ UNCHANGED <<ch_pipe, ch_pending, ch_totals>>
       ELSE /\ ch_pipe' = ch_pipe \o SubSeq(ch_source, ch_offset + 1, ch_offset + rv)
            /\ ch_pending' = rv
            /\ ch_totals' = [ch_totals EXCEPT !.filled = @ + rv]
            /\ ch_pc' = IF rv = 0 THEN "done" ELSE "drain"
    /\ UNCHANGED <<ch_source, ch_dest, ch_chunk, ch_offset, exceptChannel>>

\* channel::impl::drain(size, offset), called by the loop for what the last
\* fill returned and is not drained yet.
ChannelDrain(rv) ==
    /\ ch_pc = "drain"
    /\ rv \in SpliceFromPipe(ch_pipe, ch_pending)
    /\ ch_last' = [fn |-> "drain", size |-> ch_pending, offset |-> ch_offset, rv |-> rv]
    /\ IF Check([rv |-> rv, errno |-> "EIO"]).kind = "raised"
       THEN /\ ch_pc' = "raised"
            /\ UNCHANGED <<ch_dest, ch_pipe, ch_offset, ch_pending, ch_totals>>
       ELSE /\ ch_dest' = WriteAt(ch_dest, DrainOffset(ch_offset), SubSeq(ch_pipe, 1, rv))
            /\ ch_pipe' = SubSeq(ch_pipe, rv + 1, Len(ch_pipe))
            /\ ch_offset' = ch_offset + rv
            /\ ch_pending' = ch_pending - rv
            /\ ch_totals' = [ch_totals EXCEPT !.drained = @ + rv]
            /\ ch_pc' = IF ch_pending = rv THEN "fill" ELSE "drain"
    /\ UNCHANGED <<ch_source, ch_chunk, exceptChannel>>

ChannelInit ==
    /\ ch_source \in Sources
    /\ ch_dest \in Destinations
    /\ ch_chunk \in Chunks
    /\ ch_pipe = <<>>
    /\ ch_offset = 0
    /\ ch_pending = 0
    /\ ch_totals = [filled |-> 0, drained |-> 0]
    /\ ch_last = NoChannelCall
    /\ ch_pc = "fill"

ChannelIdle ==
    /\ ch_source = <<>>
    /\ ch_dest = <<>>
    /\ ch_chunk = 0
    /\ ch_pipe = <<>>
    /\ ch_offset = 0
    /\ ch_pending = 0
    /\ ch_totals = [filled |-> 0, drained |-> 0]
    /\ ch_last = NoChannelCall
    /\ ch_pc = "idle"

-----------------------------------------------------------------------------
(* up::string *)

\* size_type is taken SizeBits wide; the sums and differences of sizes wrap
\* at SizeModulus as std::size_t does at its own width.
SizeModulus == 2 ^ SizeBits
Wrap(n) == (n + SizeModulus) % SizeModulus

\* sizeof(basic_string<core, true>): two size_type and a pointer.
SizeofSelf == 24

\* overflow_sum(head, tail...): the sum, or Overflow where
\* __builtin_add_overflow finds that a partial sum wraps
\* (throw std::length_error).
Overflow == -1
RECURSIVE overflow_sum_partial(_, _)
overflow_sum_partial(result, tail) ==
    IF tail = <<>> THEN result
    ELSE IF result + Head(tail) >= SizeModulus THEN Overflow
    ELSE overflow_sum_partial(result + Head(tail), Tail(tail))

overflow_sum(sizes) == overflow_sum_partial(Head(sizes), Tail(sizes))

\* What an operation gives: the core it leaves, or the exception it raised
\* with the core as it was.
Made(core) == [raised |-> "none", core |-> core]
Threw(exception, core) == [raised |-> exception, core |-> core]

\* The characters [first, first + size) of the string.
Contents(core) == SubSeq(core.data, 1, core.size)

\* fill.apply(ptr + pos): the fill's characters written from offset pos.
Apply(data, pos, fill) ==
    [i \in 1..Len(data) |->
        IF i > pos /\ i <= pos + Len(fill) THEN fill[i - pos] ELSE data[i]]

\* traits_type::move(ptr + to, ptr + from, n)
Move(data, to, from, n) ==
    [i \in 1..Len(data) |->
        IF i > to /\ i <= to + n THEN data[from + (i - to)] ELSE data[i]]

RECURSIVE Concat(_)
Concat(fills) == IF fills = <<>> THEN <<>> ELSE Head(fills) \o Concat(Tail(fills))

\* core(tags::capacity, capacity, size): std::make_unique<char[]>(capacity)
\* gives capacity bytes that are zero.
core_capacity(capacity, size) ==
    [capacity |-> capacity, size |-> size, data |-> [i \in 1..capacity |-> NUL]]

\* basic_string(tags::fill, baseline, headroom, fills...), through
\* basic_string(tags::capacity, baseline, headroom, request), then
\* _apply_fills.
FillConstruct(old, baseline, headroom, fills) ==
    LET request == overflow_sum(<<headroom>> \o [k \in 1..Len(fills) |-> Len(fills[k])])
        made == core_capacity(Max(request, baseline + (baseline \div 2) + 32),
                              Wrap(request - headroom))
    IN  IF request = Overflow THEN Threw("length_error", old)
        ELSE Made([made EXCEPT !.data = Apply(made.data, 0, Concat(fills))])

\* core(const self& rhs)
core_copy(rhs) ==
    [capacity |-> rhs.size, size |-> rhs.size, data |-> Contents(rhs)]

\* core::operator=(const self& rhs), rhs another object
core_assign(core, rhs) ==
    IF core.capacity >= rhs.size
    THEN [core EXCEPT !.data = Apply(core.data, 0, Contents(rhs)), !.size = rhs.size]
    ELSE core_copy(rhs)

\* _increase_size(n): "true" with the size set, "false", or the
\* length_error of overflow_sum.
increase_size(core, n) ==
    LET size == overflow_sum(<<core.size, n>>)
    IN  IF size = Overflow THEN "length_error"
        ELSE IF size <= core.capacity THEN "true"
        ELSE "false"

\* _trim_size(n)
trim_size(core, n) == [core EXCEPT !.size = n]

append_fill(core, fill) ==
    LET n == Len(fill)
        increased == increase_size(core, n)
    IN  IF increased = "length_error" THEN Threw("length_error", core)
        ELSE IF increased = "true"
        THEN Made([core EXCEPT !.size = core.size + n,
                               !.data = Apply(core.data, core.size, fill)])
        ELSE FillConstruct(core, core.capacity, 0, <<Contents(core), fill>>)

assign_fill(core, fill) ==
    LET n == Len(fill)
        increased == increase_size(core, n - core.size)
    IN  IF n <= core.size
        THEN Made(trim_size([core EXCEPT !.data = Apply(core.data, 0, fill)], n))
        ELSE IF increased = "length_error" THEN Threw("length_error", core)
        ELSE IF increased = "true"
        THEN Made([core EXCEPT !.size = n, !.data = Apply(core.data, 0, fill)])
        ELSE FillConstruct(core, 0, 0, <<fill>>)

insert_fill(core, pos, fill) ==
    LET n == Len(fill)
        increased == increase_size(core, n)
    IN  IF ~(pos <= core.size) THEN Threw("out_of_range", core)
        ELSE IF increased = "length_error" THEN Threw("length_error", core)
        ELSE IF increased = "true"
        THEN Made([core EXCEPT
                     !.size = core.size + n,
                     !.data = Apply(Move(core.data, pos + n, pos, core.size - pos), pos, fill)])
        ELSE FillConstruct(core, core.capacity, 0,
                 <<SubSeq(core.data, 1, pos), fill, SubSeq(core.data, pos + 1, core.size)>>)

\* _replace_fill(pos, n, fill), called with pos + n <= size
replace_fill(core, pos, n, fill) ==
    LET k == Len(fill)
        increased == increase_size(core, k - n)
        moved == Apply(Move(core.data, pos + k, pos + n, core.size - pos - n), pos, fill)
    IN  IF k <= n
        THEN Made(trim_size([core EXCEPT !.data = moved], Wrap(core.size + (n - k))))
        ELSE IF increased = "length_error" THEN Threw("length_error", core)
        ELSE IF increased = "true"
        THEN Made([core EXCEPT !.size = core.size + (k - n), !.data = moved])
        ELSE FillConstruct(core, core.capacity, 0,
                 <<SubSeq(core.data, 1, pos), fill,
                   SubSeq(core.data, pos + n + 1, core.size)>>)

\* erase(pos, n), through _erase(pos, std::min(n, size - pos))
erase(core, pos, n) ==
    LET m == Min(n, core.size - pos)
    IN  IF ~(pos <= core.size) THEN Threw("out_of_range", core)
        ELSE IF m # 0
        THEN Made(trim_size(
                 [core EXCEPT !.data = Move(core.data, pos, pos + m, core.size - pos - m)],
                 core.size - m))
        ELSE Made(core)

\* resize(n, c)
resize(core, n, c) ==
    IF n > core.size
    THEN append_fill(core, [i \in 1..(n - core.size) |-> c])
    ELSE Made(trim_size(core, n))

\* reserve(request)
reserve(core, request) ==
    LET again == FillConstruct(core, 0, Wrap(request - core.size), <<Contents(core)>>)
    IN  IF request > core.capacity THEN again
        ELSE IF core.capacity - request < SizeofSelf THEN Made(core)
        ELSE IF core.capacity - core.size < SizeofSelf THEN Made(core)
        ELSE again

\* shrink_to_fit()
shrink_to_fit(core) ==
    IF core.capacity - core.size < SizeofSelf THEN Made(core)
    ELSE Made(core_copy(core))

\* The string as a core, and the string built by basic_string(s, n).
Core == [capacity |-> str_capacity, size |-> str_size, data |-> str_data]
Built(text) == FillConstruct(core_capacity(0, 0), 0, 0, <<text>>).core

\* The characters, the fills and the requests the operations are called with.
StringAlphabet == {LETTERa, LETTERb}
FillTexts == {<<>>, <<LETTERa>>, <<LETTERb>>, <<LETTERa, LETTERb>>}
Requests == {0, 1, 2, 31, 33}

\* The string holds what the reference sequence holds, inside its buffer.
Sound ==
    /\ str_size <= str_capacity
    /\ Contents(Core) = str_ref

\* One operation on a sound string: the core it leaves, the reference
\* sequence after the same operation, and the record of the call.  An
\* operation that raised leaves both as they were.
StringStep(op, request, outcome, ref) ==
    /\ str_ops < MaxOps
    /\ Sound
    /\ str_capacity' = outcome.core.capacity
    /\ str_size' = outcome.core.size
    /\ str_data' = outcome.core.data
    /\ str_ref' = IF outcome.raised = "none" THEN ref ELSE str_ref
    /\ str_ops' = str_ops + 1
    /\ str_last' = [op |-> op, request |-> request, raised |-> outcome.raised,
                    size |-> str_size, capacity |-> str_capacity]
    /\ UNCHANGED exceptString

StringAppend(text) ==
    /\ StringStep("append", Len(text), append_fill(Core, text), str_ref \o text)

StringPushBack(c) ==
    /\ StringStep("push_back", 1, append_fill(Core, <<c>>), Append(str_ref, c))

StringAssign(text) ==
    /\ StringStep("assign", Len(text), assign_fill(Core, text), text)

StringInsert(pos, text) ==
    /\ pos <= str_size
    /\ StringStep("insert", pos, insert_fill(Core, pos, text),
                  SubSeq(str_ref, 1, pos) \o text \o SubSeq(str_ref, pos + 1, Len(str_ref)))

StringErase(pos, n) ==
    /\ pos <= str_size
    /\ StringStep("erase", pos, erase(Core, pos, n),
                  SubSeq(str_ref, 1, pos)
                      \o SubSeq(str_ref, pos + Min(n, Len(str_ref) - pos) + 1, Len(str_ref)))

StringReplace(pos, n, text) ==
    /\ pos + n <= str_size
    /\ StringStep("replace", pos, replace_fill(Core, pos, n, text),
                  SubSeq(str_ref, 1, pos) \o text \o SubSeq(str_ref, pos + n + 1, Len(str_ref)))

StringResize(n, c) ==
    /\ StringStep("resize", n, resize(Core, n, c),
                  IF n > Len(str_ref) THEN str_ref \o [i \in 1..(n - Len(str_ref)) |-> c]
                  ELSE SubSeq(str_ref, 1, n))

StringReserve(request) ==
    /\ StringStep("reserve", request, reserve(Core, request), str_ref)

StringShrinkToFit ==
    /\ StringStep("shrink_to_fit", 0, shrink_to_fit(Core), str_ref)

\* clear(): _trim_size({})
StringClear ==
    /\ StringStep("clear", 0, Made(trim_size(Core, 0)), <<>>)

\* basic_string(const self& rhs): the copy takes the place of the string.
StringCopy ==
    /\ StringStep("copy", 0, Made(core_copy(Core)), str_ref)

\* operator=(const self& rhs) from a string built from text.
StringCopyAssign(text) ==
    /\ StringStep("copy_assign", Len(text), Made(core_assign(Core, Built(text))), text)

\* operator=(self&& rhs) from a string built from text: swap(rhs).
StringMoveAssign(text) ==
    /\ StringStep("move", Len(text), Made(Built(text)), text)

NoStringOp == [op |-> "none", request |-> 0, raised |-> "none", size |-> 0, capacity |-> 0]

\* A string after construction: basic_string(), basic_string(s, n), or a
\* copy of such a string.
StringInit ==
    /\ \E text \in FillTexts, how \in {"default", "built", "copied"} :
          LET core == IF how = "default" THEN core_capacity(0, 0)
                      ELSE IF how = "built" THEN Built(text)
                      ELSE core_copy(Built(text))
          IN  /\ how = "default" => text = <<>>
              /\ str_capacity = core.capacity
              /\ str_size = core.size
              /\ str_data = core.data
              /\ str_ref = Contents(core)
    /\ str_ops = 0
    /\ str_last = NoStringOp

StringIdle ==
    /\ str_capacity = 0
    /\ str_size = 0
    /\ str_data = <<>>
    /\ str_ref = <<>>
    /\ str_ops = 0
    /\ str_last = [NoStringOp EXCEPT !.op = "idle"]

-----------------------------------------------------------------------------
(* up_iconv: wrapper::transform and shared_iconv::operator() *)

Threads == 1..NumThreads
NoThread == 0

\* The descriptor is in the initial conversion state or inside a shift
\* sequence.
ShiftStates == {"initial", "shifted"}

\* if (_dirty): the reset call ::iconv(_iconv, nullptr, ...) is issued.
NeedsResetNever(dirty) == FALSE
NeedsReset(dirty) == dirty

\* ~unique_lock, on return and while an exception unwinds.
Unlocked(holder) == NoThread

NoConversion == [after |-> "none", reset |-> FALSE, start |-> "initial"]

\* std::unique_lock<std::mutex> lock(_impl->_mutex): returns once the mutex
\* is free.
IconvLock(t) ==
    /\ ic_pc[t] = "idle"
    /\ ic_count < MaxConversions
    /\ ic_mutex = NoThread
    /\ ic_mutex' = t
    /\ ic_pc' = [ic_pc EXCEPT ![t] = "locked"]
    /\ ic_count' = ic_count + 1
    /\ ic_result' = [ic_result EXCEPT ![t] = "none"]
    /\ UNCHANGED <<ic_dirty, ic_shift, ic_call, ic_prev, ic_turns>>
    /\ UNCHANGED exceptIconv

\* The call leaves by an exception: the lock's destructor runs.
IconvRaise(t, error, shift) ==
    /\ ic_mutex' = Unlocked(ic_mutex)
    /\ ic_pc' = [ic_pc EXCEPT ![t] = "idle"]
    /\ ic_prev' = "failed"
    /\ ic_shift' = shift
    /\ ic_turns' = 0
    /\ ic_result' = [ic_result EXCEPT ![t] = error]
    /\ UNCHANGED ic_count

\* transform, lines 54-59: the reset when dirty, then _dirty = true.
IconvEnter(t, resetOk) ==
    /\ ic_pc[t] = "locked"
    /\ IF NeedsReset(ic_dirty) /\ ~resetOk
       THEN /\ IconvRaise(t, "iconv-bad-reset", ic_shift)
            /\ ic_call' = [ic_call EXCEPT ![t] =
                   [after |-> ic_prev, reset |-> TRUE, start |-> "none"]]
            /\ UNCHANGED ic_dirty
       ELSE /\ ic_shift' = IF NeedsReset(ic_dirty) THEN "initial" ELSE ic_shift
            /\ ic_call' = [ic_call EXCEPT ![t] =
                   [after |-> ic_prev, reset |-> NeedsReset(ic_dirty), start |-> ic_shift']]
            /\ ic_dirty' = TRUE
            /\ ic_pc' = [ic_pc EXCEPT ![t] = "process"]
            /\ ic_turns' = 0
            /\ UNCHANGED <<ic_mutex, ic_prev, ic_count, ic_result>>
    /\ UNCHANGED exceptIconv

\* What one ::iconv call of the loop (lines 75-89) comes to.
ProcessAnswers == {"done", "bad-empty", "bad-errno", "no-progress", "more"}

\* The first process(): the input is converted.
IconvProcess(t, answer, shift) ==
    /\ ic_pc[t] = "process"
    /\ answer = "more" => ic_turns < MaxTurns
    /\ IF answer = "done"
       THEN /\ ic_pc' = [ic_pc EXCEPT ![t] = "flush"]
            /\ ic_shift' = shift
            /\ ic_turns' = 0
            /\ UNCHANGED <<ic_mutex, ic_prev, ic_count, ic_result>>
       ELSE IF answer = "more"
       THEN /\ ic_shift' = shift
            /\ ic_turns' = ic_turns + 1
            /\ UNCHANGED <<ic_mutex, ic_pc, ic_prev, ic_count, ic_result>>
       ELSE IconvRaise(t, "iconv-bad-conversion", shift)
    /\ UNCHANGED <<ic_dirty, ic_call>>
    /\ UNCHANGED exceptIconv

\* The second process(), from_data = nullptr and from_size = 0: the shift
\* sequence back to the initial state; then _dirty = false and the return.
IconvFlush(t, ok) ==
    /\ ic_pc[t] = "flush"
    /\ IF ok
       THEN /\ ic_shift' = "initial"
            /\ ic_dirty' = FALSE
            /\ ic_mutex' = Unlocked(ic_mutex)
            /\ ic_pc' = [ic_pc EXCEPT ![t] = "idle"]
            /\ ic_prev' = "ok"
            /\ ic_turns' = 0
            /\ ic_result' = [ic_result EXCEPT ![t] = "string"]
            /\ UNCHANGED ic_count
       ELSE /\ IconvRaise(t, "iconv-bad-conversion", ic_shift)
            /\ UNCHANGED ic_dirty
    /\ UNCHANGED ic_call
    /\ UNCHANGED exceptIconv

\* After wrapper's constructor: _dirty = false, a fresh descriptor.
IconvInit ==
    /\ ic_mutex = NoThread
    /\ ic_dirty = FALSE
    /\ ic_shift = "initial"
    /\ ic_pc = [t \in Threads |-> "idle"]
    /\ ic_call = [t \in Threads |-> NoConversion]
    /\ ic_prev = "none"
    /\ ic_turns = 0
    /\ ic_count = 0
    /\ ic_result = [t \in Threads |-> "none"]

IconvIdle ==
    /\ ic_mutex = NoThread
    /\ ic_dirty = FALSE
    /\ ic_shift = "initial"
    /\ ic_pc = [t \in Threads |-> "absent"]
    /\ ic_call = [t \in Threads |-> NoConversion]
    /\ ic_prev = "none"
    /\ ic_turns = 0
    /\ ic_count = 0
    /\ ic_result = [t \in Threads |-> "none"]

\* The idle values of Path, File, Directory and the directory scan.
UpperIdle == PathIdle /\ GrowIdle /\ FileIdle /\ TransferIdle /\ DirectoryIdle /\ ScanIdle /\ ChannelIdle /\ StringIdle /\ IconvIdle

-----------------------------------------------------------------------------
(* Specifications *)

NextHandle ==
    \/ \E h \in Handles : HandleConstruct(h)
    \/ \E h \in Handles : HandleConstructEmpty(h)
    \/ \E h, rhs \in Handles : HandleMoveConstruct(h, rhs)
    \/ \E h, rhs \in Handles : HandleSwap(h, rhs)
    \/ \E h, rhs \in Handles, rv \in CloseResults : HandleMoveAssign(h, rhs, rv)
    \/ \E h \in Handles : HandleRelease(h)
    \/ \E h \in Handles, rv \in CloseResults : HandleDestroy(h, rv)

InitHandle == HandleInit /\ LockInit /\ ProcInit /\ OpenIdle /\ NormIdle /\ UnmangleIdle /\ MountinfoIdle /\ LocationIdle /\ UpperIdle

SpecHandle == InitHandle /\ [][NextHandle]_vars

\* Teardown: one handle (a file's descriptor) and the lock guards.
NextTeardown ==
    \/ \E h \in {1} : HandleConstruct(h)
    \/ \E h \in {1}, rv \in CloseResults : HandleDestroy(h, rv)
    \/ \E l \in Locks, f \in Files, ex, bl \in BOOLEAN, n \in 0..MaxEintr,
          final \in FlockFinal : LockAcquire(l, f, ex, bl, n, final)
    \/ \E l \in Locks, n \in 0..MaxEintr, final \in FlockFinal :
          LockDestroy(l, n, final)

SpecTeardown == InitHandle /\ [][NextTeardown]_vars

\* The lock guards of several file instances, sleeping requests included.
NextLock ==
    \/ \E l \in Locks, f \in Files, ex, bl \in BOOLEAN, n \in 0..MaxEintr,
          final \in FlockFinal : LockAcquire(l, f, ex, bl, n, final)
    \/ \E l \in Locks, f \in Files, ex \in BOOLEAN : LockBlock(l, f, ex)
    \/ \E l \in Locks : LockWake(l)
    \/ \E l \in Locks, n \in 0..MaxEintr, final \in FlockFinal :
          LockDestroy(l, n, final)

SpecLock == InitHandle /\ [][NextLock]_vars

\* The OS grants a sleeping ::flock that stays grantable.
SpecLockFair == SpecLock /\ \A l \in Locks : WF_vars(LockWake(l))

NextOpen ==
    \/ \E answer \in OpenatAnswers : OpenatFirst(answer)
    \/ \E answer \in OpenatAnswers : OpenatPlain(answer)

InitOpen == HandleInit /\ LockInit /\ ProcInit /\ OpenInit /\ NormIdle /\ UnmangleIdle /\ MountinfoIdle /\ LocationIdle /\ UpperIdle

SpecOpen == InitOpen /\ [][NextOpen]_vars

NextNormalize == NormalizeSplitStep \/ NormalizeFinish

InitNormalize == HandleInit /\ LockInit /\ ProcInit /\ OpenIdle /\ NormInit /\ UnmangleIdle /\ MountinfoIdle /\ LocationIdle /\ UpperIdle

SpecNormalize == InitNormalize /\ [][NextNormalize]_vars

NextUnmangle == UnmangleStep \/ UnmangleReturn

InitUnmangle == HandleInit /\ LockInit /\ ProcInit /\ OpenIdle /\ NormIdle /\ UnmangleInit /\ MountinfoIdle /\ LocationIdle /\ UpperIdle

SpecUnmangle == InitUnmangle /\ [][NextUnmangle]_vars

NextMountinfo == MountinfoLine \/ MountinfoReturn

InitMountinfo ==
    /\ HandleInit /\ LockInit /\ ProcInit /\ OpenIdle /\ NormIdle /\ UnmangleIdle
    /\ MountinfoInit /\ LocationIdle /\ UpperIdle

SpecMountinfo == InitMountinfo /\ [][NextMountinfo]_vars

NextLocation ==
    \/ LocationBegin
    \/ \E scanError \in {"fs-opendir-error", "fs-readdir-error"} : LocationWalk(scanError)
    \/ LocationGiveUp

InitLocation ==
    /\ HandleInit /\ LockInit /\ ProcInit /\ OpenIdle /\ NormIdle /\ UnmangleIdle
    /\ MountinfoIdle /\ LocationInit /\ UpperIdle

SpecLocation == InitLocation /\ [][NextLocation]_vars

\* The thread that runs location()'s loop goes on running.
SpecLocationFair ==
    /\ SpecLocation
    /\ WF_vars(\E scanError \in {"fs-opendir-error", "fs-readdir-error"} :
                  LocationWalk(scanError))
    /\ WF_vars(LocationGiveUp)

NextPath ==
    \/ \E s \in Paths, origin \in Origins, pathname \in CreateNames, value \in BOOLEAN :
          PathCreate(s, origin, pathname, value)
    \/ \E r, s \in Paths, value \in BOOLEAN : PathFollow(r, s, value)
    \/ \E r, s \in Paths, pathname \in JoinedNames : PathJoined(r, s, pathname)
    \/ \E s \in Paths : PathDestroy(s)
    \/ \E r \in Paths : PathStat(r)
    \/ \E r \in Paths : PathChmod(r)
    \/ \E r \in Paths : PathChown(r)

InitPath ==
    /\ HandleInit /\ LockInit /\ ProcInit /\ OpenIdle /\ NormIdle /\ UnmangleIdle
    /\ MountinfoIdle /\ LocationIdle /\ PathInit /\ GrowIdle /\ FileIdle /\ TransferIdle /\ DirectoryIdle /\ ScanIdle /\ ChannelIdle /\ StringIdle /\ IconvIdle

SpecPath == InitPath /\ [][NextPath]_vars

\* The idle values of the handle, the lock guard, openat, the text
\* functions and location().
LowerIdle ==
    /\ HandleInit /\ LockInit /\ ProcInit /\ OpenIdle /\ NormIdle /\ UnmangleIdle
    /\ MountinfoIdle /\ LocationIdle

NextGrow ==
    \/ \E found \in Findings : GetcwdAttempt(found)
    \/ \E found \in Findings : ReadlinkAttempt(found)
    \/ GrowGiveUp

InitGrow ==
    /\ LowerIdle /\ PathIdle /\ GrowInit /\ FileIdle /\ TransferIdle /\ DirectoryIdle /\ ScanIdle /\ ChannelIdle /\ StringIdle /\ IconvIdle

SpecGrow == InitGrow /\ [][NextGrow]_vars

NextFile ==
    \/ FileDeriveFlags
    \/ FileDeriveMode
    \/ \E value \in BOOLEAN : FileMakeHandle(value)

InitFile ==
    /\ LowerIdle /\ PathIdle /\ GrowIdle /\ FileInit /\ TransferIdle /\ DirectoryIdle /\ ScanIdle /\ ChannelIdle /\ StringIdle /\ IconvIdle

SpecFile == InitFile /\ [][NextFile]_vars

NextTransfer == \E answer \in TransferAnswers : TransferAttempt(answer)

InitTransfer ==
    /\ LowerIdle /\ PathIdle /\ GrowIdle /\ FileIdle /\ TransferInit /\ DirectoryIdle /\ ScanIdle /\ ChannelIdle /\ StringIdle /\ IconvIdle

SpecTransfer == InitTransfer /\ [][NextTransfer]_vars

NextDirectory ==
    \/ \E d \in Directories : DirectoryOpen(d)
    \/ \E d \in Directories : DirectoryShare(d)
    \/ \E d \in Directories : DirectoryDrop(d)
    \/ \E d \in Directories : ListLvalue(d)
    \/ \E d \in Directories : ListRvalue(d)

InitDirectory ==
    /\ LowerIdle /\ PathIdle /\ GrowIdle /\ FileIdle /\ TransferIdle /\ DirectoryInit /\ ScanIdle /\ ChannelIdle /\ StringIdle /\ IconvIdle

SpecDirectory == InitDirectory /\ [][NextDirectory]_vars

NextScan ==
    \/ \E ok \in BOOLEAN, rv \in CloseResults : ScanOpendir(ok, rv)
    \/ \E answer \in BOOLEAN, rv \in CloseResults : ScanTurn(answer, rv)
    \/ \E rv \in CloseResults : ScanVisitorRaises(rv)

InitScan ==
    /\ LowerIdle /\ PathIdle /\ GrowIdle /\ FileIdle /\ TransferIdle /\ DirectoryIdle /\ ScanInit /\ ChannelIdle /\ StringIdle /\ IconvIdle

SpecScan == InitScan /\ [][NextScan]_vars

NextChannel ==
    \/ \E rv \in SpliceAnswers : ChannelFill(rv)
    \/ \E rv \in SpliceAnswers : ChannelDrain(rv)

InitChannel ==
    /\ LowerIdle /\ PathIdle /\ GrowIdle /\ FileIdle /\ TransferIdle /\ DirectoryIdle /\ ScanIdle /\ ChannelInit /\ StringIdle /\ IconvIdle

SpecChannel == InitChannel /\ [][NextChannel]_vars

NextString ==
    \/ \E text \in FillTexts : StringAppend(text)
    \/ \E c \in StringAlphabet : StringPushBack(c)
    \/ \E text \in FillTexts : StringAssign(text)
    \/ \E pos \in 0..MaxStringLen, text \in FillTexts : StringInsert(pos, text)
    \/ \E pos \in 0..MaxStringLen, n \in 0..MaxStringLen : StringErase(pos, n)
    \/ \E pos \in 0..MaxStringLen, n \in 0..MaxStringLen, text \in FillTexts :
          StringReplace(pos, n, text)
    \/ \E n \in 0..MaxStringLen, c \in StringAlphabet : StringResize(n, c)
    \/ \E request \in Requests : StringReserve(request)
    \/ StringShrinkToFit
    \/ StringClear
    \/ StringCopy
    \/ \E text \in FillTexts : StringCopyAssign(text)
    \/ \E text \in FillTexts : StringMoveAssign(text)

InitString ==
    /\ LowerIdle /\ PathIdle /\ GrowIdle /\ FileIdle /\ TransferIdle /\ DirectoryIdle /\ ScanIdle /\ ChannelIdle /\ StringInit /\ IconvIdle

SpecString == InitString /\ [][NextString]_vars

NextIconv ==
    \/ \E t \in Threads : IconvLock(t)
    \/ \E t \in Threads, resetOk \in BOOLEAN : IconvEnter(t, resetOk)
    \/ \E t \in Threads, answer \in ProcessAnswers, shift \in ShiftStates :
          IconvProcess(t, answer, shift)
    \/ \E t \in Threads, ok \in BOOLEAN : IconvFlush(t, ok)

InitIconv ==
    /\ LowerIdle /\ PathIdle /\ GrowIdle /\ FileIdle /\ TransferIdle /\ DirectoryIdle /\ ScanIdle /\ ChannelIdle /\ StringIdle /\ IconvInit

SpecIconv == InitIconv /\ [][NextIconv]_vars

-----------------------------------------------------------------------------
(* Claims about the handle and the lock guard *)

Owned == 0..(os_next - 1)
Holders(d) == {h \in Handles : h_alive[h] /\ h_fd[h] = d}

\* C1: every descriptor a handle took ownership of is held by at most one
\* live handle; a released descriptor is held by no handle and was never
\* closed by one; a descriptor that was not released is either still held
\* and not closed, or held by nobody and closed exactly once; a moved-from
\* or released handle is empty.
C1_HandleOwnership ==
    /\ \A d \in Owned :
          /\ Cardinality(Holders(d)) <= 1
          /\ os_closes[d] <= 1
          /\ d \in raw_released => os_closes[d] = 0 /\ Holders(d) = {}
          /\ d \notin raw_released => ((os_closes[d] = 1) <=> (Holders(d) = {}))
    /\ \A h \in Handles :
          h_hist[h] \in {"moved_from", "released"} => h_fd[h] = EmptyFd

\* A handle that was move-assigned from itself is empty and its descriptor
\* was closed once, while another descriptor has been released unclosed.
C1_Witness ==
    /\ \E h \in Handles :
          h_alive[h] /\ h_hist[h] = "moved_from" /\ h_fd[h] = EmptyFd
    /\ \E d \in Owned : d \notin raw_released /\ os_closes[d] = 1
    /\ \E d \in Owned : d \in raw_released /\ os_closes[d] = 0
    /\ \A h \in Handles : ~h_alive[h] \/ h_fd[h] = EmptyFd

\* C2: once the OS has failed a close in handle teardown or an unlock in
\* lock teardown, the process is terminated, no exception has been raised
\* to the caller for it, and no later step changes anything.
C2_TeardownFailureIsFatal ==
    [][os_failed' # "none" =>
          /\ proc' = "terminated"
          /\ raised' = "none"
          /\ (os_failed # "none" => UNCHANGED vars)]_vars

\* A failed unlock has terminated the process while a lock was held.
C2_Witness ==
    /\ os_failed = "unlock"
    /\ proc = "terminated"
    /\ fatal = "bad-unlock"

-----------------------------------------------------------------------------
(* Claims about context::impl::openat *)

Outcome(attempt) == Check(attempt.answer)

\* C3: with suppression enabled and O_NOATIME not requested, openat makes
\* at most two ::openat calls, the first with O_NOATIME added; the second,
\* without it, is made exactly when the first failed with EPERM and decides
\* what the caller gets; any other first answer is what the caller gets.
\* Otherwise exactly one call is made, with the flags as merged, and its
\* answer is what the caller gets.
C3_OpenatAttempts ==
    LET n == Len(op_attempts)
        requested == "O_NOATIME" \in op_flags
    IN  /\ n <= 2
        /\ op_pc = "done" =>
              IF op_avoid /\ ~requested
              THEN /\ n \in {1, 2}
                   /\ op_attempts[1].flags = MergedFlags \cup {"O_NOATIME"}
                   /\ (n = 2) <=> (op_attempts[1].answer.errno = "EPERM")
                   /\ n = 2 => op_attempts[2].flags = MergedFlags \ {"O_NOATIME"}
                   /\ op_result = Outcome(op_attempts[n])
              ELSE /\ n = 1
                   /\ op_attempts[1].flags = MergedFlags
                   /\ op_result = Outcome(op_attempts[1])

\* The first call failed with EPERM and the retry without O_NOATIME failed
\* with another error, which the caller got.
C3_Witness ==
    /\ op_pc = "done"
    /\ op_avoid
    /\ Len(op_attempts) = 2
    /\ op_attempts[1].answer.errno = "EPERM"
    /\ "O_NOATIME" \notin op_attempts[2].flags
    /\ op_result.kind = "raised" /\ op_result.errno = "ENOENT"

-----------------------------------------------------------------------------
(* Claims about pathname_normalize *)

\* The places where a piece ends or begins: before the text, each '/', and
\* after the text.
Cuts(path) == {0, Len(path) + 1} \cup {i \in 1..Len(path) : path[i] = SLASH}
NextCut(path, b) == CHOOSE e \in Cuts(path) : e > b /\ \A x \in Cuts(path) : x > b => e <= x
PieceAfter(path, b) == SubSeq(path, b + 1, NextCut(path, b) - 1)

\* The cuts that begin a piece that is neither empty nor ".".
KeptCuts(path) ==
    {b \in Cuts(path) \ {Len(path) + 1} :
        PieceAfter(path, b) # <<>> /\ PieceAfter(path, b) # <<DOT>>}

\* "/" and the piece, for each of the cuts, in order.
RECURSIVE SlashJoin(_, _)
SlashJoin(path, cuts) ==
    IF cuts = {} THEN <<>>
    ELSE LET b == CHOOSE x \in cuts : \A y \in cuts : x <= y
         IN  <<SLASH>> \o PieceAfter(path, b) \o SlashJoin(path, cuts \ {b})

RefNormalize(path) ==
    LET startsWithSlash == path # <<>> /\ Head(path) = SLASH
        joined == SlashJoin(path, KeptCuts(path))
    IN  IF KeptCuts(path) = {}
        THEN (IF startsWithSlash THEN <<SLASH>> ELSE <<DOT>>)
        ELSE IF startsWithSlash THEN joined ELSE Tail(joined)

\* C4: pathname_normalize(p) is the pieces of p between '/' that are neither
\* empty nor ".", in order, joined by single '/', with a leading '/' iff p
\* starts with '/'; "/" or "." when no piece is kept; ".." and other dotted
\* names are kept; and the four examples come out as stated.
C4_NormalizeIsFilteredJoin ==
    nz_pc = "done" =>
        /\ nz_result = RefNormalize(nz_path)
        /\ nz_path = <<LETTERa, SLASH, SLASH, LETTERb, SLASH, DOT, SLASH, LETTERc>>
              => nz_result = <<LETTERa, SLASH, LETTERb, SLASH, LETTERc>>
        /\ nz_path = <<SLASH, LETTERa, SLASH, DOT, SLASH, LETTERb>>
              => nz_result = <<SLASH, LETTERa, SLASH, LETTERb>>
        /\ nz_path = <<>> => nz_result = <<DOT>>
        /\ nz_path = <<SLASH>> => nz_result = <<SLASH>>
        /\ nz_path = <<DOT, DOT, SLASH, DOT>> => nz_result = <<DOT, DOT>>

\* normalize("a//b/./c") has returned "a/b/c".
C4_Witness ==
    /\ nz_pc = "done"
    /\ nz_path = <<LETTERa, SLASH, SLASH, LETTERb, SLASH, DOT, SLASH, LETTERc>>
    /\ nz_result = <<LETTERa, SLASH, LETTERb, SLASH, LETTERc>>

-----------------------------------------------------------------------------
(* Claims about unmangle_pathname_from_proc *)

Escapes(text) == {i \in 1..Len(text) : text[i] = BACKSLASH}

\* The backslash at i is followed by [0-3][0-7][0-7].
GoodEscape(text, i) ==
    /\ i + 3 <= Len(text)
    /\ text[i + 1] \in DIGIT0..DIGIT3
    /\ text[i + 2] \in DIGIT0..DIGIT7
    /\ text[i + 3] \in DIGIT0..DIGIT7

WellFormed(text) == \A i \in Escapes(text) : GoodEscape(text, i)

\* The text with each escape replaced by its byte: the positions that are
\* not digits of an escape, in order.
RefDecode(text) ==
    LET digits == UNION {{i + 1, i + 2, i + 3} : i \in Escapes(text)}
        kept == (1..Len(text)) \ digits
        nth(k) == CHOOSE i \in kept : Cardinality({j \in kept : j < i}) = k - 1
    IN  [k \in 1..Cardinality(kept) |->
            LET i == nth(k)
            IN  IF text[i] = BACKSLASH
                THEN 64 * (text[i + 1] - DIGIT0) + 8 * (text[i + 2] - DIGIT0)
                         + (text[i + 3] - DIGIT0)
                ELSE text[i]]

\* C5: on a text in which every backslash is followed by [0-3][0-7][0-7],
\* decoding does not raise and returns the text with each escape replaced by
\* the byte 64*d1 + 8*d2 + d3, the other bytes unchanged and in order; the
\* result is three bytes shorter per escape.
C5_DecodeWellFormed ==
    WellFormed(um_text) =>
        /\ um_pc # "raised"
        /\ um_pc = "done" =>
              /\ um_out = RefDecode(um_text)
              /\ Len(um_out) = Len(um_text) - 3 * Cardinality(Escapes(um_text))

\* "\040\137\377" has been decoded to the bytes 32, 95, 255.
C5_Witness ==
    /\ um_pc = "done"
    /\ Cardinality(Escapes(um_text)) = 3
    /\ um_out = <<32, 95, 255>>

\* C6: decoding raises exactly when some backslash of the text is followed
\* by fewer than three bytes or by three bytes that are not
\* [0-3][0-7][0-7]; then the caller gets no text.
C6_DecodeRaisesOnMalformed ==
    /\ um_pc \in {"done", "raised"} => ((um_pc = "raised") <=> ~WellFormed(um_text))
    /\ um_pc = "raised" => um_out = NoText
    /\ um_pc = "scan" => um_out = NoText

\* The truncated "a\04" has raised.
C6_Witness ==
    /\ um_pc = "raised"
    /\ um_text = <<LETTERa, BACKSLASH, DIGIT0, DIGIT4>>
    /\ um_out = NoText

-----------------------------------------------------------------------------
(* Claims about parse_mountinfo *)

\* The pieces of text between the bytes ch.
RECURSIVE SplitOn(_, _)
SplitOn(text, ch) ==
    LET e == Find(text, 1, Len(text) + 1, ch)
    IN  IF e = Len(text) + 1 THEN <<text>>
        ELSE <<SubSeq(text, 1, e - 1)>> \o SplitOn(SubSeq(text, e + 1, Len(text)), ch)

\* The newline-terminated lines of the input, in file order.
TerminatedLines(input) ==
    LET pieces == SplitOn(input, NEWLINE)
    IN  SubSeq(pieces, 1, Len(pieces) - 1)

IsNumber(token) == token # <<>> /\ \A i \in 1..Len(token) : IsDigit(token[i])

\* token is <major>:<minor>
IsDeviceField(token) ==
    LET parts == SplitOn(token, COLON)
    IN  Len(parts) = 2 /\ IsNumber(parts[1]) /\ IsNumber(parts[2])

\* The line itself holds <id> <parent-id> <major>:<minor> <root> <mount-point>.
HasFields(line) ==
    LET tokens == SplitOn(line, SPACE)
    IN  /\ Len(tokens) >= 5
        /\ IsNumber(tokens[1]) /\ IsNumber(tokens[2]) /\ IsDeviceField(tokens[3])
        /\ tokens[4] # <<>> /\ tokens[5] # <<>>

\* A line as the kernel writes it: the fields, more text after the mount
\* point, and a mount point that decodes.
FullLine(line) ==
    /\ HasFields(line)
    /\ Len(SplitOn(line, SPACE)) >= 6
    /\ WellFormed(SplitOn(line, SPACE)[5])

\* The mount a full line stands for.
MountOfLine(line) ==
    LET tokens == SplitOn(line, SPACE)
        dev == SplitOn(tokens[3], COLON)
    IN  Mount(MakeDev(Decimal(dev[1], 1, Len(dev[1]) + 1), Decimal(dev[2], 1, Len(dev[2]) + 1)),
              RefDecode(tokens[5]))

\* C7 (the claim as stated): a table with a newline-terminated line that
\* does not itself hold major:minor and the mount point is never parsed to
\* the end, also when more lines follow the short one; a table of full lines
\* is parsed to one mount per line, in file order.
C7_ShortLineRaises ==
    LET lines == TerminatedLines(mi_input)
    IN  /\ mi_pc = "done" => \A k \in 1..Len(lines) : HasFields(lines[k])
        /\ (mi_pc \in {"done", "raised"} /\ \A k \in 1..Len(lines) : FullLine(lines[k]))
              => /\ mi_pc = "done"
                 /\ mi_result = [k \in 1..Len(lines) |-> MountOfLine(lines[k])]

\* The part of C7 about full lines, which the code keeps.
C7_FullLinesParsed ==
    LET lines == TerminatedLines(mi_input)
    IN  (mi_pc \in {"done", "raised"} /\ \A k \in 1..Len(lines) : FullLine(lines[k]))
              => /\ mi_pc = "done"
                 /\ mi_result = [k \in 1..Len(lines) |-> MountOfLine(lines[k])]

-----------------------------------------------------------------------------
(* Claims about origin::impl::location *)

\* a comes before b in the order of their bytes.
LexBefore(a, b) ==
    \E k \in 1..(Len(b)) :
        /\ \A i \in 1..(k - 1) : i <= Len(a) /\ a[i] = b[i]
        /\ k > Len(a) \/ (Len(a) >= k /\ a[k] < b[k])

\* The shortest of the paths, the first in byte order among the shortest.
Shortest(paths) ==
    CHOOSE x \in paths :
        \A y \in paths \ {x} : Len(x) < Len(y) \/ (Len(x) = Len(y) /\ LexBefore(x, y))

\* The paths of the mounts on the origin's device whose root has the inode
\* of directory i.
MountPathsAt(i) ==
    {fs.mounts[k].path :
        k \in {j \in 1..Len(fs.mounts) :
                  fs.mounts[j].device = fs.dev[fs.n] /\ fs.mounts[j].ino = i}}

Finished == loc_pc \in {"done", "raised"}

\* C8: when the origin's directory has the inode of the root of a mount on
\* its device, location() returns the normalized path of the shortest such
\* mount, the first in byte order among equally short ones, whatever the
\* order of the table, and opens no "..".
C8_MountRootReturned ==
    MountPathsAt(fs.n) # {} =>
        /\ loc_pc \in {"entry", "done"}
        /\ loc_opens = 0
        /\ loc_pc = "done" =>
              loc_result = Returned(RefNormalize(Shortest(MountPathsAt(fs.n))))

\* The table lists "/aa" before "/b" for the origin's inode, and "/b" was
\* returned.
C8_Witness ==
    /\ loc_pc = "done"
    /\ Len(fs.mounts) = 2
    /\ fs.mounts[1].path = <<SLASH, LETTERa, LETTERa>>
    /\ MountPathsAt(fs.n) = {<<SLASH, LETTERa, LETTERa>>, <<SLASH, LETTERb>>}
    /\ loc_result = Returned(<<SLASH, LETTERb>>)

\* Directory m is the nearest ancestor of the origin's directory that is a
\* mount root on its device, and every directory below m down to the
\* origin's is a directory-kind entry of its parent.
NearestMountRoot(m) ==
    /\ m < fs.n
    /\ MountPathsAt(m) # {}
    /\ \A i \in (m + 1)..fs.n :
          /\ MountPathsAt(i) = {}
          /\ fs.dev[i - 1] = fs.dev[fs.n]
          /\ fs.entry[i] = "directory"

\* path + "/" + the names of the directories m + 1, ..., fs.n.
RECURSIVE JoinNames(_, _)
JoinNames(path, m) ==
    IF m = fs.n THEN path ELSE JoinNames(path \o <<SLASH>> \o NameOf(m + 1), m + 1)

\* C9 (the claim as stated): for an origin k >= 1 levels below its nearest
\* mount root M, location() returns
\* normalize(path(M) + "/" + n1 + ... + "/" + nk).
C9_WalkReturnsJoinedPath ==
    \A m \in 1..fs.n :
        (Finished /\ NearestMountRoot(m)) =>
            loc_result = Returned(RefNormalize(JoinNames(Shortest(MountPathsAt(m)), m)))

\* The walk up from the origin's directory stops at directory j with no
\* mount matched on the way: directory j has no directory-kind entry in its
\* parent, or its parent is on another device, or it is its own parent.
WalkStopsAt(j) ==
    /\ \A i \in j..fs.n : MountPathsAt(i) = {}
    /\ \A i \in (j + 1)..fs.n :
          fs.dev[i - 1] = fs.dev[fs.n] /\ fs.entry[i] = "directory"
    /\ \/ j = 1
       \/ j > 1 /\ fs.dev[j - 1] # fs.dev[fs.n]
       \/ j > 1 /\ fs.dev[j - 1] = fs.dev[fs.n] /\ fs.entry[j] # "directory"

\* C10 (the claim as stated): in each of these cases location() raises a
\* resolution error and returns no path.
C10_ResolutionErrors ==
    \A j \in 1..fs.n :
        (Finished /\ WalkStopsAt(j)) => loc_result = Raised("fs-resolve-error")

\* The cases of C10 in which no directory has to be scanned: the origin's
\* directory is its own parent or its parent is on another device.
C10_WithoutScan ==
    (Finished /\ WalkStopsAt(fs.n) /\ (fs.n = 1 \/ fs.dev[Parent(fs.n)] # fs.dev[fs.n]))
        => loc_result = Raised("fs-resolve-error")


-----------------------------------------------------------------------------
(* Claims about Path *)

Deriving == {"create", "follow", "joined"}
Metadata == {"stat", "chmod", "chown"}

\* C11: creating a Path from an Origin, follow() and joined() make no OS
\* call, put their result in a new Path and leave every Path that exists
\* as it was; an OS call is made only by an operation such as stat().
C11_DerivingIsLazy ==
    /\ [](p_op.kind \in Deriving => p_op.calls = <<>>)
    /\ [](p_op.calls # <<>> => p_op.kind \in Metadata)
    /\ [][p_op'.kind \in Deriving =>
             /\ ~p_paths[p_op'.result].made /\ p_paths'[p_op'.result].made
             /\ \A s \in Paths : p_paths[s].made => p_paths'[s] = p_paths[s]]_vars

\* joined() has just made a Path that differs from its receiver, which is
\* still there.
C11_Witness ==
    /\ p_op.kind = "joined"
    /\ p_paths[p_op.receiver].made
    /\ p_paths[p_op.result].pathname # p_paths[p_op.receiver].pathname

\* C12: joined(name) with a name that starts with '/' gives the pathname
\* name as it is and an origin that is the working directory whatever the
\* receiver's origin was; any other name gives the receiver's origin and
\* the normalized text of receiver pathname, '/', name; the follow flag is
\* the receiver's in both cases.
C12_Joined ==
    p_op.kind = "joined" =>
        LET receiver == p_paths[p_op.receiver]
            result == p_paths[p_op.result]
        IN  /\ result.follow = receiver.follow
            /\ IF p_op.name # <<>> /\ Head(p_op.name) = SLASH
               THEN /\ result.pathname = p_op.name
                    /\ dir_fd(result.origin) = AT_FDCWD
                    /\ result.origin.context = receiver.origin.context
               ELSE /\ result.origin = receiver.origin
                    /\ result.pathname =
                           RefNormalize(receiver.pathname \o <<SLASH>> \o p_op.name)

\* joined("/b") on a Path whose origin holds a descriptor.
C12_Witness ==
    /\ p_op.kind = "joined"
    /\ p_op.name = <<SLASH, LETTERb>>
    /\ p_paths[p_op.receiver].origin.handle = OriginDescriptor
    /\ p_paths[p_op.result].made

\* C13: stat(), chmod() and chown() treat the follow flag alike: with
\* follow = false the call carries AT_SYMLINK_NOFOLLOW, with follow = true
\* it does not, and carries no flag the call rejects.
C13_FollowAppliedAlike ==
    p_op.kind \in Metadata =>
        \A i \in 1..Len(p_op.calls) :
            LET call == p_op.calls[i]
            IN  IF p_paths[p_op.receiver].follow
                THEN /\ "AT_SYMLINK_NOFOLLOW" \notin call.flags
                     /\ call.flags \subseteq AcceptedFlags(call.call)
                ELSE "AT_SYMLINK_NOFOLLOW" \in call.flags

\* chmod() and chown() alone do what C13 says of all three.
C13_ChmodChown ==
    p_op.kind \in {"chmod", "chown"} =>
        \A i \in 1..Len(p_op.calls) :
            LET call == p_op.calls[i]
            IN  IF p_paths[p_op.receiver].follow
                THEN /\ "AT_SYMLINK_NOFOLLOW" \notin call.flags
                     /\ call.flags \subseteq AcceptedFlags(call.call)
                ELSE "AT_SYMLINK_NOFOLLOW" \in call.flags

-----------------------------------------------------------------------------
(* Claims about getcwd and readlink *)

\* The answer that tells the buffer was too small: ERANGE for getcwd, a
\* byte count that fills the buffer for readlink.
TooSmall(attempt) ==
    IF g_fn = "getcwd" THEN attempt.rv = -1 /\ attempt.errno = "ERANGE"
    ELSE attempt.rv >= attempt.size

OsError(attempt) == attempt.rv = -1 /\ ~TooSmall(attempt)

\* C14: the attempts use the sizes 256, 512, ..., 65536, nine at most; all
\* but the last were answered "too small"; the call has ended with an
\* error at once after any other OS error and after a ninth "too small",
\* and with a result otherwise; the text readlink returns is shorter than
\* the buffer of the attempt that gave it.
C14_DoublingLoop ==
    LET n == Len(g_attempts)
        last == g_attempts[n]
    IN  g_fn # "none" =>
        /\ n <= 9
        /\ \A k \in 1..n : g_attempts[k].size = 128 * 2^k
        /\ \A k \in 1..(n - 1) : TooSmall(g_attempts[k])
        /\ g_pc = "loop" => \A k \in 1..n : TooSmall(g_attempts[k])
        /\ g_pc = "done" =>
              /\ n >= 1 /\ ~TooSmall(last) /\ ~OsError(last)
              /\ g_result = GrowReturned(last.rv)
              /\ last.rv < last.size
        /\ g_pc = "raised" =>
              /\ n >= 1 /\ g_result.tag = "raised"
              /\ OsError(last) \/ (TooSmall(last) /\ n = 9)
        /\ (n >= 1 /\ OsError(last)) => g_pc = "raised"
        /\ (n >= 1 /\ ~TooSmall(last) /\ ~OsError(last)) => g_pc = "done"

\* readlink has returned a text from its third attempt.
C14_Witness ==
    /\ g_fn = "readlink" /\ g_pc = "done"
    /\ Len(g_attempts) = 3
    /\ g_result.length = 512

\* Each function has run out of sizes.
C14_WitnessExhausted == g_pc = "raised" /\ Len(g_attempts) = 9 /\ TooSmall(g_attempts[9])

-----------------------------------------------------------------------------
(* Claims about file::file *)

\* x has every bit of mask.
HasBits(x, mask) == BitAnd(x, mask) = mask

\* The flags the table of options gives: the value of each flag whose
\* option is set, added up (the flags have no bit in common).
FlagOfOption ==
    [append |-> O_APPEND, create |-> O_CREAT, exclusive |-> O_EXCL, tmpfile |-> O_TMPFILE,
     truncate |-> O_TRUNC]
FlagOptions == {"append", "create", "exclusive", "tmpfile", "truncate"}

RECURSIVE SumFlags(_)
SumFlags(options) ==
    IF options = {} THEN 0
    ELSE LET o == CHOOSE x \in options : TRUE
         IN  FlagOfOption[o] + SumFlags(options \ {o})

\* C15: once the flags are derived, their access mode is read-write iff
\* read and write are set, write-only iff write is set without read, else
\* read-only; O_APPEND, O_CREAT, O_EXCL, O_TMPFILE and O_TRUNC are in them
\* exactly when their option is set; and the flags are the same whatever
\* executable, group and others are.
C15_FlagsOfOptions ==
    f_pc \in {"mode", "open", "done"} =>
        /\ (BitAnd(f_flags, O_ACCMODE) = O_RDWR) <=> ({"read", "write"} \subseteq f_options)
        /\ (BitAnd(f_flags, O_ACCMODE) = O_WRONLY) <=>
               ("write" \in f_options /\ "read" \notin f_options)
        /\ (BitAnd(f_flags, O_ACCMODE) = O_RDONLY) <=> ("write" \notin f_options)
        /\ \A o \in FlagOptions : HasBits(f_flags, FlagOfOption[o]) <=> (o \in f_options)
        /\ f_flags = DeriveFlags(f_options \ {"executable", "group", "others"})
        /\ f_flags = BitAnd(f_flags, O_ACCMODE) + SumFlags(f_options \cap FlagOptions)

\* The flags are derived for read, write, tmpfile and group.
C15_Witness ==
    /\ f_pc = "done"
    /\ f_options = {"read", "write", "tmpfile", "group"}
    /\ f_flags = O_RDWR + O_TMPFILE

\* C16 as stated: owner read and write are always set; executable adds
\* owner execute; group adds group read, write and execute, others adds
\* others read, write and execute; a class whose option is not set has no
\* bit.
C16_ModeAsStated ==
    f_pc \in {"open", "done"} =>
        /\ HasBits(f_mode, S_IRUSR + S_IWUSR)
        /\ "executable" \in f_options => HasBits(f_mode, S_IXUSR)
        /\ "group" \in f_options => HasBits(f_mode, S_IRGRP + S_IWGRP + S_IXGRP)
        /\ "others" \in f_options => HasBits(f_mode, S_IROTH + S_IWOTH + S_IXOTH)
        /\ "group" \notin f_options => BitAnd(f_mode, S_IRGRP + S_IWGRP + S_IXGRP) = 0
        /\ "others" \notin f_options => BitAnd(f_mode, S_IROTH + S_IWOTH + S_IXOTH) = 0

\* C16, amended: owner read and write are always set; owner execute is set
\* iff executable is; group read and write are set iff group is, and group
\* execute iff group and executable are; others read and write are set iff
\* others is, and others execute iff others and executable are; no other
\* bit is set.
C16_ModeOfOptions ==
    f_pc \in {"open", "done"} =>
        /\ HasBits(f_mode, S_IRUSR + S_IWUSR)
        /\ HasBits(f_mode, S_IXUSR) <=> ("executable" \in f_options)
        /\ HasBits(f_mode, S_IRGRP) <=> ("group" \in f_options)
        /\ HasBits(f_mode, S_IWGRP) <=> ("group" \in f_options)
        /\ HasBits(f_mode, S_IXGRP) <=> ({"group", "executable"} \subseteq f_options)
        /\ HasBits(f_mode, S_IROTH) <=> ("others" \in f_options)
        /\ HasBits(f_mode, S_IWOTH) <=> ("others" \in f_options)
        /\ HasBits(f_mode, S_IXOTH) <=> ({"others", "executable"} \subseteq f_options)
        /\ f_mode < 512

\* The mode is derived for group without executable: rw-rw----.
C16_Witness ==
    /\ f_pc = "done"
    /\ f_options = {"write", "create", "group"}
    /\ f_mode = S_IRUSR + S_IWUSR + S_IRGRP + S_IWGRP

-----------------------------------------------------------------------------
(* Claims about read_some and write_some *)

\* C17: every attempt is the function's OS call with the descriptor, the
\* buffers and the offset of the arguments; all attempts but the last were
\* answered EINTR; the call ends at the first other answer, returning its
\* byte count or raising its error; EINTR is never raised.
C17_InterruptedIsRetried ==
    LET n == Len(rw_attempts)
        last == rw_attempts[n]
    IN  rw_args.fn # "none" =>
        /\ \A k \in 1..n :
              /\ rw_attempts[k].call = OsCallOf[rw_args.fn]
              /\ rw_attempts[k].fd = rw_args.fd
              /\ rw_attempts[k].size = rw_args.size
              /\ rw_attempts[k].offset = rw_args.offset
        /\ \A k \in 1..(n - 1) : rw_attempts[k].errno = "EINTR"
        /\ rw_pc = "loop" <=> (n = 0 \/ last.errno = "EINTR")
        /\ rw_pc = "done" <=> (n >= 1 /\ last.rv # -1)
        /\ rw_pc = "done" => rw_result = TransferReturned(last.rv)
        /\ rw_pc = "raised" <=> (n >= 1 /\ last.rv = -1 /\ last.errno # "EINTR")
        /\ rw_pc = "raised" => rw_result = TransferRaised(ErrorTagOf[rw_args.fn], last.errno)
        /\ rw_result.errno # "EINTR"

\* The vectored write returned the count of its fourth attempt, after three
\* interrupted ones.
C17_Witness ==
    /\ rw_args.fn = "write_some_bulk"
    /\ rw_pc = "done"
    /\ Len(rw_attempts) = 4
    /\ rw_result.count = 4

\* An error other than EINTR was raised after an interrupted attempt.
C17_WitnessRaised ==
    /\ rw_pc = "raised"
    /\ Len(rw_attempts) = 2
    /\ rw_result.errno = "EIO"

-----------------------------------------------------------------------------
(* Claims about directory::list *)

\* C18: a list() through an lvalue, or through an rvalue whose impl has
\* another owner, opens "." relative to the Directory's descriptor, scans
\* that new descriptor and leaves the Directory's own descriptor as it was
\* and open; a list() through an rvalue that is the only owner scans the
\* Directory's own descriptor and opens nothing.  A descriptor is given up
\* only by an impl that had one owner.
C18_ListKeepsSharedDescriptor ==
    /\ [](d_op.kind # "none" /\ d_op.before # EmptyFd =>
            IF d_op.kind = "lvalue" \/ d_op.shared
            THEN /\ Len(d_op.opens) = 1
                 /\ d_op.opens[1].dirfd = d_op.before /\ d_op.opens[1].pathname = <<DOT>>
                 /\ d_op.scanned \notin {d_op.before, EmptyFd}
                 /\ d_handle[d_op.dir] = d_op.before
                 /\ d_op.before \in d_fds
                 /\ d_op.raised = "none"
            ELSE /\ d_op.opens = <<>>
                 /\ d_op.scanned = d_op.before
                 /\ d_handle[d_op.dir] = EmptyFd)
    /\ [][\A d \in Directories :
             (d_holders[d] >= 2 /\ d_holders'[d] >= 2) =>
                 (d_handle'[d] = d_handle[d] /\ (d_handle[d] \in d_fds => d_handle[d] \in d_fds'))
         ]_vars

\* list() through an rvalue Directory whose impl has another owner.
C18_Witness ==
    /\ d_op.kind = "rvalue" /\ d_op.shared
    /\ d_op.before # EmptyFd
    /\ d_handle[d_op.dir] = d_op.before

\* list() through an rvalue Directory that is the only owner.
C18_WitnessSole ==
    /\ d_op.kind = "rvalue" /\ ~d_op.shared
    /\ d_op.before # EmptyFd
    /\ d_handle[d_op.dir] = EmptyFd

-----------------------------------------------------------------------------
(* Claims about scan_directory *)

DotNames == {<<DOT>>, <<DOT, DOT>>}
KnownTypes == {DT_BLK, DT_CHR, DT_DIR, DT_FIFO, DT_LNK, DT_REG, DT_SOCK, DT_UNKNOWN}
KindOfType ==
    [t \in KnownTypes |->
        CASE t = DT_BLK -> "block_device" [] t = DT_CHR -> "character_device"
          [] t = DT_DIR -> "directory" [] t = DT_FIFO -> "named_pipe"
          [] t = DT_LNK -> "symbolic_link" [] t = DT_REG -> "regular_file"
          [] t = DT_SOCK -> "socket" [] t = DT_UNKNOWN -> "unknown"]

\* The entries of a delivery that are not "." or "..", in order.
RECURSIVE NonDot(_)
NonDot(entries) ==
    IF entries = <<>> THEN <<>>
    ELSE IF Head(entries).name \in DotNames THEN NonDot(Tail(entries))
    ELSE <<Head(entries)>> \o NonDot(Tail(entries))

\* The same entries as the caller sees them.
Yielded(entries) ==
    [k \in 1..Len(entries) |->
        [ino |-> entries[k].ino, name |-> entries[k].name, kind |-> KindOfType[entries[k].type]]]

HasBadType(entries) == \E k \in 1..Len(entries) : entries[k].type \notin KnownTypes

\* C19: the collecting scan never holds an entry named "." or ".."; when
\* it returns, its result is the delivered entries without "." and "..",
\* each once and in the order of delivery; when an entry other than "." and
\* ".." has a type outside the known ones, it raises an error instead.
C19_CollectingScan ==
    sd_collect =>
        /\ \A k \in 1..Len(sd_vector) : sd_vector[k].name \notin DotNames
        /\ sd_pc = "done" =>
              /\ ~HasBadType(NonDot(sd_entries))
              /\ sd_result = ScanReturned(FALSE, Yielded(NonDot(sd_entries)))
        /\ (sd_pc = "loop" /\ HasBadType(NonDot(SubSeq(sd_entries, 1, sd_read)))) => FALSE
        /\ (sd_pc = "raised" /\ sd_result.error = "fs-bad-type-error") =>
              /\ sd_entries[sd_read].type \notin KnownTypes
              /\ sd_entries[sd_read].name \notin DotNames
        /\ sd_pc = "raised" =>
              sd_result.error \in {"fs-opendir-error", "fs-readdir-error", "fs-bad-type-error"}

\* The scan returned ".a" and "a" of a delivery that also had "." and "..".
C19_Witness ==
    /\ sd_collect /\ sd_pc = "done"
    /\ Len(sd_entries) = 3 /\ Len(sd_result.entries) = 2
    /\ sd_result.entries[1].name = <<DOT, LETTERa>>
    /\ sd_result.entries[2].name = <<LETTERa>>

\* The scan raised on an entry of an unknown type.
C19_WitnessBadType ==
    /\ sd_collect /\ sd_pc = "raised"
    /\ sd_result.error = "fs-bad-type-error"
    /\ sd_read = 2

\* C20: the visitor has been called on the entries read so far that are not
\* "." or "..", in order, and has answered true at most to the last one;
\* the scan returns true right after the visitor answered true, with no
\* further entry read and no further call, and returns false only when
\* the directory is exhausted and the visitor never answered true.
C20_VisitorScan ==
    LET n == Len(sd_visited)
        read == SubSeq(sd_entries, 1, sd_read)
    IN  (~sd_collect /\ sd_pc \in {"loop", "done"}) =>
        /\ [k \in 1..n |-> sd_visited[k].entry] = Yielded(NonDot(read))
        /\ \A k \in 1..(n - 1) : ~sd_visited[k].answer
        /\ (n >= 1 /\ sd_visited[n].answer) =>
              /\ sd_pc = "done" /\ sd_result.found
              /\ sd_entries[sd_read].name = sd_visited[n].entry.name
        /\ (sd_pc = "done" /\ sd_result.found) => (n >= 1 /\ sd_visited[n].answer)
        /\ (sd_pc = "done" /\ ~sd_result.found) =>
              /\ sd_read = Len(sd_entries) /\ sd_end = "end"
              /\ \A k \in 1..n : ~sd_visited[k].answer
        /\ sd_pc = "done" => sd_result.tag = "returned"

\* The visitor answered true to the first of two entries; the second was
\* not read.
C20_Witness ==
    /\ ~sd_collect /\ sd_pc = "done" /\ sd_result.found
    /\ Len(sd_visited) = 1 /\ sd_read = 2 /\ Len(sd_entries) = 3
    /\ sd_entries[3].name \notin DotNames

\* The directory was exhausted and the visitor never answered true.
C20_WitnessExhausted ==
    /\ ~sd_collect /\ sd_pc = "done" /\ ~sd_result.found
    /\ Len(sd_visited) = 2

-----------------------------------------------------------------------------
(* Claims about the lock requests *)

\* C21: a non-blocking lock request that conflicts with a lock held through
\* another file instance raises the already-locked condition, unless the OS
\* fails the call for another reason; the already-locked condition is
\* raised only for a non-blocking request that found such a lock, never
\* for a blocking request, never by the unlock; every other failure of the
\* OS is raised as a generic error, and a granted request raises nothing.
C21_AlreadyLocked ==
    /\ lk_op.kind = "acquire" =>
          /\ (~lk_op.blocking /\ lk_op.conflict) =>
                \/ raised = "locked_file" /\ lk_op.answer = "EWOULDBLOCK"
                \/ raised = "runtime" /\ lk_op.answer \notin {"ok", "EWOULDBLOCK"}
          /\ raised = "locked_file" =>
                ~lk_op.blocking /\ lk_op.conflict /\ lk_op.answer = "EWOULDBLOCK"
          /\ lk_op.answer \notin {"ok", "EWOULDBLOCK"} => raised = "runtime"
          /\ lk_op.answer = "ok" => raised = "none"
    /\ lk_op.kind = "destroy" => raised # "locked_file"

\* A non-blocking request on one file instance found the exclusive lock of
\* the other one and raised the already-locked condition.
C21_Witness ==
    /\ lk_op.kind = "acquire" /\ ~lk_op.blocking /\ lk_op.conflict
    /\ lk_op.answer = "EWOULDBLOCK"
    /\ raised = "locked_file"
    /\ \E l \in Locks : lk_alive[l] /\ lk_file[l] # lk_op.file /\ lk_excl[l]
    /\ ~lk_alive[lk_op.lock]

\* A blocking request failed in the OS and raised a generic error.
C21_WitnessGeneric ==
    /\ lk_op.kind = "acquire" /\ lk_op.blocking /\ lk_op.conflict
    /\ lk_op.answer = "ENOLCK"
    /\ raised = "runtime"

\* The request of l sleeps and another file instance holds a conflicting lock.
Sleeping(l) == lk_wait[l] # NoWait /\ ~Grantable(l)

\* C22: after the destructor's unlock succeeded the file instance holds no
\* lock, and a sleeping request that only it stood against is grantable; a
\* grantable sleeping request is eventually granted, unless another file
\* instance takes a conflicting lock first or the process ends; a
\* non-blocking request that finds no conflicting lock of another file
\* instance is granted unless the OS fails the call.  A lock whose
\* constructor raised does not exist: its request leaves the OS's locks as
\* they were, and an unlock is issued only for a lock whose constructor
\* returned.
C22_DestroyReleases ==
    /\ [](/\ (lk_op.kind = "destroy" /\ lk_op.answer = "ok") =>
                /\ flock_mode[lk_op.file] = "UN"
                /\ \A l \in Locks :
                      (/\ lk_wait[l] # NoWait
                       /\ \A g \in Files \ {lk_op.file, lk_wait[l].file} :
                             flock_mode[g] = "UN") => Grantable(l)
          /\ (lk_op.kind = "acquire" /\ ~lk_op.conflict /\ lk_op.answer # "ENOLCK") =>
                /\ raised = "none"
                /\ lk_alive[lk_op.lock]
                /\ flock_mode[lk_op.file] # "UN"
          /\ (lk_op.kind = "acquire" /\ raised # "none") => ~lk_alive[lk_op.lock])
    /\ \A l \in Locks :
          Grantable(l) ~> (lk_alive[l] \/ Sleeping(l) \/ proc = "terminated")
    /\ [][/\ (lk_op'.kind = "acquire" /\ raised' # "none") => flock_mode' = flock_mode
          /\ (lk_op' # lk_op /\ lk_op'.kind = "destroy") =>
                /\ lk_alive[lk_op'.lock]
                /\ ~(lk_op.kind = "acquire" /\ lk_op.lock = lk_op'.lock /\ raised # "none")]_vars

\* A blocking request that slept while the other file instance held the
\* lock has been granted after that lock was destroyed.
C22_Witness ==
    /\ lk_op.kind = "acquire" /\ lk_op.blocking /\ lk_op.conflict
    /\ lk_op.answer = "ok"
    /\ lk_alive[lk_op.lock]
    /\ \A l \in Locks \ {lk_op.lock} : ~lk_alive[l]
    /\ flock_mode[lk_op.file] = "EX"

\* A request failed with a generic error while the other file instance
\* keeps its shared lock.
C22_WitnessFailed ==
    /\ lk_op.kind = "acquire" /\ raised = "runtime"
    /\ ~lk_alive[lk_op.lock]
    /\ \E l \in Locks : lk_alive[l] /\ lk_file[l] # lk_op.file /\ ~lk_excl[l]
    /\ \E f \in Files \ {lk_op.file} : flock_mode[f] = "SH"

\* The lock a lock object asked for.
ModeOf(l) == IF lk_excl[l] THEN "EX" ELSE "SH"

\* C25: as long as a lock object exists, the OS holds for its file instance
\* the lock in the mode the object acquired, also after another lock object
\* made through the same file instance was acquired and destroyed.
C25_LockStaysHeld ==
    \A l \in Locks : lk_alive[l] => flock_mode[lk_file[l]] = ModeOf(l)

\* Two lock objects were made through one file instance, the second was
\* destroyed: the first one exists and the file instance holds no lock.
C25_Unlocked ==
    \E l \in Locks :
        /\ lk_alive[l] /\ lk_excl[l]
        /\ flock_mode[lk_file[l]] = "UN"
        /\ lk_op.kind = "destroy" /\ lk_op.file = lk_file[l] /\ lk_op.lock # l

-----------------------------------------------------------------------------
(* Claims about the channel *)

\* C23: whatever counts the OS returns, every fill and every drain that
\* returns gives a count between 0 and the size it was asked for; the pipe
\* holds, in order, the bytes of the source between the total drained and
\* the total filled, so the total drained never exceeds the total filled;
\* the destination's bytes up to the total drained are the source's; when
\* the loop ends the destination's first N bytes are the N bytes of the
\* source; the source never changes.
C23_ChannelCopies ==
    /\ [](LET filled == ch_totals.filled
              drained == ch_totals.drained
              N == Len(ch_source)
          IN  ch_pc \in {"fill", "drain", "done", "raised"} =>
              /\ (ch_last.fn # "none" /\ ch_last.rv # -1) =>
                    ch_last.rv >= 0 /\ ch_last.rv <= ch_last.size
              /\ drained <= filled /\ filled <= N
              /\ ch_pipe = SubSeq(ch_source, drained + 1, filled)
              /\ Len(ch_dest) >= drained
              /\ SubSeq(ch_dest, 1, drained) = SubSeq(ch_source, 1, drained)
              /\ ch_pc = "done" =>
                    /\ drained = N /\ ch_pipe = <<>>
                    /\ SubSeq(ch_dest, 1, N) = ch_source)
    /\ [][ch_source' = ch_source]_vars

\* A source longer than the pipe was copied over older contents of the
\* destination, so in more than one fill; the last fill found the end of
\* the source.
C23_Witness ==
    /\ ch_pc = "done"
    /\ Len(ch_source) = MaxFileLen /\ ch_source[1] # ch_source[2]
    /\ Len(ch_dest) = MaxFileLen + 1 /\ ch_dest[MaxFileLen + 1] = LETTERc
    /\ ch_chunk = MaxChunk
    /\ ch_last.fn = "fill" /\ ch_last.rv = 0 /\ ch_last.offset = MaxFileLen

-----------------------------------------------------------------------------
(* Claims about the descriptor of a directory scan *)

\* C24: when scan_directory has ended, by a return or by an error, the
\* descriptor it was handed has been closed exactly once: by the caller's
\* handle when the directory stream could not be opened, by the directory
\* stream on every other path (end of directory, visitor stop, read error,
\* unknown type code, error of the visitor); it is never closed by both,
\* and while the scan runs it is open and held by exactly one of them.  A
\* close that fails ends the process after that one call.
C24_ClosedOnce ==
    LET closes == sd_closes.stream + sd_closes.handle
    IN  /\ sd_pc = "entry" => closes = 0 /\ sd_handle # EmptyFd
        /\ sd_pc = "loop" => closes = 0 /\ sd_handle = EmptyFd
        /\ sd_pc \in {"done", "raised", "terminated"} =>
              /\ closes = 1
              /\ sd_handle = EmptyFd
        /\ sd_pc \in {"done", "raised"} =>
              (sd_closes.handle = 1 <=> sd_result.error = "fs-opendir-error")

\* The visitor raised an error on the second entry: the directory stream
\* closed the descriptor, the handle did not.
C24_Witness ==
    /\ sd_pc = "raised" /\ sd_result.error = "visitor-error"
    /\ sd_read = 2
    /\ sd_closes = [stream |-> 1, handle |-> 0]

\* The directory stream could not be opened: the handle closed the
\* descriptor.
C24_WitnessOpendir ==
    /\ sd_pc = "raised" /\ sd_result.error = "fs-opendir-error"
    /\ sd_closes = [stream |-> 0, handle |-> 1]

-----------------------------------------------------------------------------
(* Claims about the descriptors and the end of location()'s walk *)

\* C26: the descriptor a turn of the walk hands to the directory scan was
\* opened with flags through which directory entries can be read, so not
\* with O_PATH.
C26_ScannedIsReadable ==
    (loc_pc = "walk" /\ WalkGoesOn(loc_previous, loc_next)) =>
        ReadableDirectory(loc_current.flags)

\* The first scan of the walk failed: the parent directory was opened
\* with O_PATH.
C26_ScanFailed ==
    /\ loc_pc = "raised"
    /\ loc_result.tag \in {"fs-opendir-error", "fs-readdir-error"}
    /\ "O_PATH" \in loc_current.flags
    /\ fs.n >= 2 /\ fs.entry[fs.n] = "directory"

C27_WitnessWalk ==
    /\ loc_pc = "raised"
    /\ fs.n = MaxDepth /\ loc_opens = 2

-----------------------------------------------------------------------------
(* Claims about up::string *)

\* C28: after every sequence of operations, each called inside its range,
\* the size is at most the capacity and the string holds the characters of
\* the reference sequence.
C28_StringRefinesSequence ==
    /\ str_size <= str_capacity
    /\ Contents(Core) = str_ref


\* The state C28 excludes: a replace() of n characters by fewer has left
\* the size beyond the capacity.
C28_ReplaceShrinks ==
    /\ str_last.op = "replace"
    /\ str_last.raised = "none"
    /\ str_size > str_capacity

\* Every operation but a replace() leaves the string sound, a growth that
\* reallocates included.
C28_OthersRefine ==
    str_last.op # "replace" => C28_StringRefinesSequence

\* A growth has reallocated and the string holds the reference sequence.
C28_Reallocated ==
    /\ str_last.op \in {"append", "insert", "push_back"}
    /\ str_capacity > str_last.capacity
    /\ str_last.size > 0
    /\ C28_StringRefinesSequence

\* C29: reserve(n) never raises, leaves the size and the contents as they
\* were, and leaves a capacity of at least max(n, size), for every n.
C29_ReserveKeeps ==
    str_last.op = "reserve" =>
        /\ str_last.raised = "none"
        /\ str_size = str_last.size
        /\ Contents(Core) = str_ref
        /\ str_capacity >= Max(str_last.request, str_size)

\* The state C29 excludes: a reserve() below the size has raised the
\* length_error of overflow_sum.
C29_ReserveRaised ==
    /\ str_last.op = "reserve"
    /\ str_last.raised = "length_error"
    /\ str_last.request < str_last.size

\* A reserve(n) of at least the size does what C29 says.
C29_ReserveFromSize ==
    (str_last.op = "reserve" /\ str_last.request >= str_last.size) =>
        /\ str_last.raised = "none"
        /\ str_size = str_last.size
        /\ Contents(Core) = str_ref
        /\ str_capacity >= Max(str_last.request, str_size)

-----------------------------------------------------------------------------
(* Claims about the iconv converter *)

\* The threads inside a conversion: past the lock, before the return.
Inside == {t \in Threads : ic_pc[t] \in {"locked", "process", "flush"}}

\* C30: a conversion that follows a failed one has issued the reset and
\* starts from the initial state, a conversion that follows a successful
\* one (or none) has issued no reset and starts from the initial state too;
\* at most one thread is inside a conversion, it is the holder of the mutex,
\* and the mutex is free whenever no thread is inside, after a raise as
\* after a return.
C30_ResetAfterFailure ==
    /\ \A t \in Threads :
          ic_pc[t] \in {"process", "flush"} =>
             /\ ic_call[t].after = "failed" => ic_call[t].reset
             /\ ic_call[t].after \in {"ok", "none"} => ~ic_call[t].reset
             /\ ic_call[t].start = "initial"
    /\ \A t \in Threads :
          (ic_pc[t] = "idle" /\ ic_result[t] = "iconv-bad-reset") =>
             (ic_call[t].after = "failed" /\ ic_call[t].reset)
    /\ Cardinality(Inside) <= 1
    /\ \A t \in Threads : t \in Inside <=> ic_mutex = t
    /\ Inside = {} => ic_mutex = NoThread

\* A conversion that follows a failed one is converting after its reset;
\* the other thread's conversion has raised and that thread is outside.
C30_Witness ==
    \E t \in Threads, u \in Threads :
        /\ t # u
        /\ ic_pc[t] = "process"
        /\ ic_call[t].after = "failed"
        /\ ic_call[t].reset
        /\ ic_result[u] = "iconv-bad-conversion"
        /\ ic_pc[u] = "idle"

\* A conversion that follows a successful one is converting without a reset.
C30_WitnessNoReset ==
    \E t \in Threads :
        /\ ic_pc[t] = "process"
        /\ ic_call[t].after = "ok"
        /\ ~ic_call[t].reset

=============================================================================
